---- MODULE Spec2Model ----
(***************************************************************************)
(* Model of the Mergin client's local project: change detection between    *)
(* two file inventories, pull and push planning, and the application of    *)
(* pulled and pushed changes to the working tree and the basefile mirror   *)
(* (src/mergin/merginproject.py, class MerginProject).                     *)
(***************************************************************************)
EXTENDS Integers, Sequences, FiniteSets, TLC

VARIABLES
    cmpOrigin,      \* compare_file_sets: the `origin` argument
    cmpCurrent,     \* compare_file_sets: the `current` argument
    cmpResult,      \* compare_file_sets: the returned dict, or NoResult
    planMeta,       \* get_pull_changes: self.metadata (version, files)
    planServer,     \* get_pull_changes: the server_files argument
    planGeodiff,    \* get_pull_changes: whether self.geodiff is set
    planResult,     \* get_pull_changes: the returned dict, or NoResult
    geodiff,        \* whether the diff library was loaded (self.geodiff)
    wt,             \* the working tree: path -> content
    metaDir,        \* the basefiles under .mergin: path -> content
    metadata,       \* .mergin/mergin.json: version and files
    server,         \* the server's project: version, files, history
    last,           \* the last pull or push: its plan, log and outcome
    count,          \* edits, server commits, syncs and raised syncs so far
    bkFile,         \* backup_file: the `file` argument
    bkBefore,       \* backup_file: the working tree before the last call
    bkTree,         \* backup_file: the working tree
    bkResult        \* backup_file: the path the last call returned, or NoResult

cmpVars == <<cmpOrigin, cmpCurrent, cmpResult>>
planVars == <<planMeta, planServer, planGeodiff, planResult>>
sysVars == <<geodiff, wt, metaDir, metadata, server, last, count>>
bkVars == <<bkFile, bkBefore, bkTree, bkResult>>
vars == <<cmpVars, planVars, sysVars, bkVars>>

NoResult == [none |-> TRUE]

---------------------------------------------------------------------------
(* File names.  A project path is name + ext + tail; tail is "" for a file  *)
(* of the project and "_conflict_copy", "_conflict_copy2" for its backups.  *)

MaxFiles == 2
MaxHistory == 3
MaxEdits == 2
MaxCommits == 2
MaxSyncs == 2
MaxBroken == 1
MaxCopies == 2

Path(n, e) == [name |-> n, ext |-> e, tail |-> ""]

GpkgA == Path("a", ".gpkg")
GpkgB == Path("b", ".gpkg")
TxtC  == Path("c", ".txt")

BasePaths == {GpkgA, GpkgB, TxtC}

\* os.path.splitext(file)[1]: everything from the last dot of the file name
splitext_ext(file) == file.ext \o file.tail

---------------------------------------------------------------------------
(* compare_file_sets *)

PathsOf(files) == {files[i].path : i \in DOMAIN files}

\* origin_map[path]: a dict comprehension keeps the last entry of a path
origin_map(origin, path) ==
    origin[CHOOSE i \in DOMAIN origin :
              /\ origin[i].path = path
              /\ \A j \in DOMAIN origin : j > i => origin[j].path # path]

SelectRemoved(origin, current) ==
    SelectSeq(origin, LAMBDA f : f.path \notin PathsOf(current))

SelectAdded(origin, current) ==
    SelectSeq(current, LAMBDA f : f.path \notin PathsOf(origin))

\* the predicate handed to find(): same checksum, same size, and a path
\* different from the "path" of every entry moved so far
MoveCandidate(f, rf, moved) ==
    /\ f.checksum = rf.checksum
    /\ f.size = rf.size
    /\ \A k \in DOMAIN moved : f.path # moved[k].path

\* find(current, predicate): index of the first item satisfying it, 0 if none
FirstOf(hits) == IF hits = {} THEN 0 ELSE CHOOSE i \in hits : \A j \in hits : i <= j

FindMatch(current, rf, moved) ==
    FirstOf({i \in DOMAIN current : MoveCandidate(current[i], rf, moved)})

\* lines 176-177: moved after the removed file rf, m the index find() gave
MovedWith(moved, current, rf, m) ==
    IF m = 0 THEN moved
    ELSE Append(moved, ("new_path" :> current[m].path) @@ rf)

RECURSIVE ScanMoved(_, _, _, _)
ScanMoved(removed, current, i, moved) ==
    IF i > Len(removed) THEN moved
    ELSE ScanMoved(removed, current, i + 1,
                   MovedWith(moved, current, removed[i],
                             FindMatch(current, removed[i], moved)))

SelectUpdated(origin, current) ==
    LET changed == SelectSeq(current, LAMBDA f :
                      /\ f.path \in PathsOf(origin)
                      /\ f.checksum # origin_map(origin, f.path).checksum)
    IN  [i \in DOMAIN changed |->
            ("origin_checksum" :> origin_map(origin, changed[i].path).checksum)
                @@ changed[i]]

\* lines 179-197: added and removed without the moved files, and updated
GroupChanges(origin, current, removed, added, moved) ==
    [renamed |-> moved,
     added   |-> SelectSeq(added, LAMBDA f :
                    \A k \in DOMAIN moved : f.path # moved[k].new_path),
     removed |-> SelectSeq(removed, LAMBDA f :
                    \A k \in DOMAIN moved : f.path # moved[k].path),
     updated |-> SelectUpdated(origin, current)]

\* lines 169-197, with removed computed
PairRemoved(origin, current, removed) ==
    GroupChanges(origin, current, removed, SelectAdded(origin, current),
                 ScanMoved(removed, current, 1, <<>>))

compare_file_sets(origin, current) ==
    PairRemoved(origin, current, SelectRemoved(origin, current))

---------------------------------------------------------------------------
(* get_pull_changes *)

\* DIFFS_LIMIT_SIZE default, 1024 * 1024
SIZE_LIMIT == 1048576

\* int_version: the integer N of a version token "v<N>", the token being
\* held as the sequence of N's decimal digits
RECURSIVE int_version(_)
int_version(tok) ==
    IF Len(tok) = 0 THEN 0
    ELSE 10 * int_version(SubSeq(tok, 1, Len(tok) - 1)) + tok[Len(tok)]

\* the token of version N
Token(n) == IF n < 10 THEN <<n>> ELSE <<n \div 10, n % 10>>

\* variant: every file is versioned when the diff library is loaded
is_versioned_file_AnyExt(file, enabled) == enabled

\* variant: the extension decides, whether or not the diff library is there
is_versioned_file_ByExt(file, enabled) ==
    splitext_ext(file) \in {".gpkg", ".sqlite"}

is_versioned_file(file, enabled) ==
    IF ~enabled THEN FALSE
    ELSE splitext_ext(file) \in {".gpkg", ".sqlite"}

\* variant: a later entry without 'diff' stops the walk and keeps the diffs
\* collected so far
RECURSIVE WalkHistory_KeepDiffs(_, _, _, _)
WalkHistory_KeepDiffs(history, version, i, acc) ==
    IF i > Len(history) THEN acc
    ELSE LET k == history[i].version
             v == history[i].entry
         IN  IF int_version(k) <= int_version(version)
             THEN WalkHistory_KeepDiffs(history, version, i + 1, acc)
             ELSE IF "diff" \in DOMAIN v
                  THEN WalkHistory_KeepDiffs(history, version, i + 1,
                          [diffs |-> Append(acc.diffs, v.diff.path),
                           diffs_size |-> acc.diffs_size + v.diff.size,
                           is_updated |-> TRUE])
                  ELSE [acc EXCEPT !.is_updated = TRUE]

\* the loop over file['history'].items(), from item i on, in the mapping's
\* own order; a later entry without 'diff' empties diffs and stops the walk
RECURSIVE WalkHistory(_, _, _, _)
WalkHistory(history, version, i, acc) ==
    IF i > Len(history) THEN acc
    ELSE LET k == history[i].version
             v == history[i].entry
         IN  IF int_version(k) <= int_version(version)
             THEN WalkHistory(history, version, i + 1, acc)
             ELSE IF "diff" \in DOMAIN v
                  THEN WalkHistory(history, version, i + 1,
                          [diffs |-> Append(acc.diffs, v.diff.path),
                           diffs_size |-> acc.diffs_size + v.diff.size,
                           is_updated |-> TRUE])
                  ELSE [diffs |-> <<>>,
                        diffs_size |-> acc.diffs_size,
                        is_updated |-> TRUE]

ScanHistory(file, version) ==
    WalkHistory(file.history, version, 1,
                [diffs |-> <<>>, diffs_size |-> 0, is_updated |-> FALSE])

\* variant: the size limit is compared with >=
UseDiffs_AtLimit(file, walk) ==
    /\ walk.diffs # <<>>
    /\ file.size >= SIZE_LIMIT
    /\ 2 * walk.diffs_size < file.size

\* diffs and file['size'] > size_limit and diffs_size < file['size']/2
UseDiffs(file, walk) ==
    /\ walk.diffs # <<>>
    /\ file.size > SIZE_LIMIT
    /\ 2 * walk.diffs_size < file.size

\* variant: a file whose history has no later entry stays in `updated`
PlanWalked_NeverDrops(file, walk) ==
    IF walk.is_updated /\ UseDiffs(file, walk)
    THEN [file |-> ("diffs" :> walk.diffs) @@ file, not_updated |-> FALSE]
    ELSE [file |-> file, not_updated |-> FALSE]

\* lines 240-244: what the walk of the history decides for one updated
\* entry: marked not updated, given diffs, or left as it is
PlanWalked(file, walk) ==
    IF walk.is_updated
    THEN IF UseDiffs(file, walk)
         THEN [file |-> ("diffs" :> walk.diffs) @@ file, not_updated |-> FALSE]
         ELSE [file |-> file, not_updated |-> FALSE]
    ELSE [file |-> file, not_updated |-> TRUE]

PlanUpdated(file, version, enabled) ==
    IF ~is_versioned_file(file.path, enabled)
    THEN [file |-> file, not_updated |-> FALSE]
    ELSE PlanWalked(file, ScanHistory(file, version))

\* the files of the loop's results that are not marked not_updated
KeptFiles(planned) ==
    LET kept == SelectSeq(planned, LAMBDA r : ~r.not_updated)
    IN  [i \in DOMAIN kept |-> kept[i].file]

\* lines 215-247 on the result of compare_file_sets
PlanPull(changes, version, enabled) ==
    IF ~enabled THEN changes
    ELSE [changes EXCEPT !.updated =
             KeptFiles([i \in DOMAIN changes.updated |->
                           PlanUpdated(changes.updated[i], version, enabled)])]

get_pull_changes(md, server_files, enabled) ==
    PlanPull(compare_file_sets(md.files, server_files), md.version, enabled)

---------------------------------------------------------------------------
(* Files.  A directory (working tree, meta directory, temp directory) is a  *)
(* function from the paths of its files to their contents.  A content is    *)
(* the set of rows a file holds: what the diff library sees of a .gpkg, and *)
(* plain bytes for any other file.                                          *)

Rows == {1, 2}
Contents == SUBSET Rows

\* UPLOAD_CHUNK_SIZE (mergin/common.py), 10 * 1024 * 1024
UPLOAD_CHUNK_SIZE == 10485760

\* generate_checksum: a hash, different for different contents
Checksum(c) == (IF 1 \in c THEN 1 ELSE 0) + (IF 2 \in c THEN 2 ELSE 0) + 1

\* os.path.getsize of a file with this content: 0, one chunk, one byte more
\* than a chunk, more than two chunks
Size(c) == (UPLOAD_CHUNK_SIZE * Cardinality(c)) + (IF 2 \in c THEN 1 ELSE 0)

Exists(dir, p) == p \in DOMAIN dir

\* shutil.copy(src, dest) with the content already read
WriteFile(dir, p, c) == (p :> c) @@ dir

\* os.remove(p)
RemoveFile(dir, p) == [q \in DOMAIN dir \ {p} |-> dir[q]]

WithTail(p, t) == [p EXCEPT !.tail = p.tail \o t]

\* What a reader of the database at p sees.  SQLite keeps the transactions
\* that are not yet checkpointed in p-wal, so a -wal file next to p holds
\* the state of the database and p itself may lag behind it; a byte copy of
\* p alone (shutil.copy) takes only tree[p].
DbContent(tree, p) ==
    IF Exists(tree, WithTail(p, "-wal")) THEN tree[WithTail(p, "-wal")] ELSE tree[p]

\* a write through SQLite: p and, when there is one, p-wal hold the new state
DbWrite(tree, p, c) ==
    IF Exists(tree, WithTail(p, "-wal"))
    THEN WriteFile(WriteFile(tree, p, c), WithTail(p, "-wal"), c)
    ELSE WriteFile(tree, p, c)

\* ignore_file: the extension ends in -shm, -wal, ~, pyc or swap
ignore_file(p) == p.tail \in {"-wal", "-shm"}

NameRank(n) == CASE n = "a" -> 1 [] n = "b" -> 2 [] n = "c" -> 3 [] OTHER -> 4
TailRank(t) ==
    CASE t = "" -> 0
      [] t = "_conflict_copy" -> 1
      [] t = "_conflict_copy2" -> 2
      [] t = "_conflict_copy3" -> 3
      [] OTHER -> 4
PathRank(p) == (10 * NameRank(p.name)) + TailRank(p.tail)

\* the paths of a set as a list, in the order the directory is walked
RECURSIVE WalkOrder(_)
WalkOrder(ps) ==
    IF ps = {} THEN <<>>
    ELSE LET first == CHOOSE q \in ps : \A r \in ps : PathRank(q) <= PathRank(r)
         IN  <<first>> \o WalkOrder(ps \ {first})

Fingerprint(p, c) == [path |-> p, checksum |-> Checksum(c), size |-> Size(c)]

FingerprintAll(tree, walk) ==
    [i \in DOMAIN walk |-> Fingerprint(walk[i], tree[walk[i]])]

inspect_files(tree) ==
    FingerprintAll(tree, WalkOrder({q \in DOMAIN tree : ~ignore_file(q)}))

---------------------------------------------------------------------------
(* The diff library (pygeodiff), by its capability set.  A changeset holds  *)
(* the rows inserted and the rows deleted.  Every call fails when a file    *)
(* it reads is missing, and may fail for reasons of its own: `broken` is    *)
(* the set of call sites at which the library raises in this run.           *)

Sites == {"push_diff", "local_diff", "local_apply", "server_diff", "rebase",
          "base_apply", "push_apply"}

Changeset(base, current) == [ins |-> current \ base, del |-> base \ current]

has_changes(cs) == cs.ins # {} \/ cs.del # {}

Touched(cs) == cs.ins \cup cs.del

\* apply_changeset applies to a target that has the deleted rows and lacks
\* the inserted ones
Applies(target, cs) == cs.ins \cap target = {} /\ cs.del \subseteq target

Patched(target, cs) == (target \cup cs.ins) \ cs.del

\* rebase(base, theirs, mine) merges when the two sides touch different rows
Rebases(base, theirs, mine) ==
    Touched(Changeset(base, theirs)) \cap Touched(Changeset(base, mine)) = {}

Rebased(base, theirs, mine) == Patched(theirs, Changeset(base, mine))

\* size of a changeset file
ChangesetSize(cs) == (UPLOAD_CHUNK_SIZE * Cardinality(cs.ins)) + Cardinality(cs.del)

---------------------------------------------------------------------------
(* get_push_changes *)

\* a chunk count that rounds down
ChunkCount_Floor(size) == size \div UPLOAD_CHUNK_SIZE

\* math.ceil(size / UPLOAD_CHUNK_SIZE)
ChunkCount(size) == (size + UPLOAD_CHUNK_SIZE - 1) \div UPLOAD_CHUNK_SIZE

\* [str(uuid.uuid4()) for i in range(n)]: the n identifiers drawn after
\* `next` identifiers have been drawn in this call
FreshChunks(next, n) == [i \in 1..n |-> next + i]

\* the loop over changes['added'] + changes['updated'] giving each file its
\* chunks, from file i on
RECURSIVE AssignChunks(_, _, _)
AssignChunks(files, i, next) ==
    IF i > Len(files) THEN [files |-> files, next |-> next]
    ELSE LET n == ChunkCount(files[i].size)
         IN  AssignChunks(
                 [files EXCEPT ![i] = ("chunks" :> FreshChunks(next, n)) @@ files[i]],
                 i + 1, next + n)

DiffName(path, id) == [of |-> path, id |-> id]

DiffChecksum(cs) == (10 * Checksum(cs.ins)) + Checksum(cs.del)

\* variant: the entry keeps the checksum of the working file
WithDiff_KeepChecksum(file, cs, diff_id, next) ==
    ("diff" :> [path |-> DiffName(file.path, diff_id),
                checksum |-> DiffChecksum(cs),
                size |-> ChangesetSize(cs),
                changeset |-> cs])
    @@ [file EXCEPT !.chunks = FreshChunks(next, ChunkCount(ChangesetSize(cs)))]

\* the entry of an updated file with real changes: checksum of the basefile
\* on the server, chunks for the diff, and the diff's own fingerprint
WithDiff(file, cs, diff_id, next) ==
    ("diff" :> [path |-> DiffName(file.path, diff_id),
                checksum |-> DiffChecksum(cs),
                size |-> ChangesetSize(cs),
                changeset |-> cs])
    @@ [file EXCEPT !.checksum = file.origin_checksum,
                    !.chunks = FreshChunks(next, ChunkCount(ChangesetSize(cs)))]

\* line 282: create_changeset raises when the library does, or when the
\* basefile or the file is missing
DiffRaises(path, tree, meta_dir, broken) ==
    \/ "push_diff" \in broken
    \/ ~Exists(meta_dir, path)
    \/ ~Exists(tree, path)

\* the body of the loop over changes['updated'] for one file
PushUpdated(file, tree, meta_dir, enabled, broken, next) ==
    IF ~is_versioned_file(file.path, enabled)
    THEN [file |-> file, not_updated |-> FALSE, next |-> next]
    ELSE LET diff_id == next + 1
             raised  == DiffRaises(file.path, tree, meta_dir, broken)
             cs      == Changeset(meta_dir[file.path], DbContent(tree, file.path))
         IN  IF raised
             THEN [file |-> file, not_updated |-> FALSE, next |-> diff_id]
             ELSE IF has_changes(cs)
                  THEN [file |-> WithDiff(file, cs, diff_id, diff_id),
                        not_updated |-> FALSE,
                        next |-> diff_id + ChunkCount(ChangesetSize(cs))]
                  ELSE [file |-> file, not_updated |-> TRUE, next |-> diff_id]

RECURSIVE PushUpdatedFrom(_, _, _, _, _, _, _)
\* the result r of one file, followed by the results of the files after it
PushUpdatedNext(r, files, i, tree, meta_dir, enabled, broken) ==
    <<r>> \o PushUpdatedFrom(files, i + 1, tree, meta_dir, enabled, broken, r.next)

PushUpdatedFrom(files, i, tree, meta_dir, enabled, broken, next) ==
    IF i > Len(files) THEN <<>>
    ELSE PushUpdatedNext(PushUpdated(files[i], tree, meta_dir, enabled, broken, next),
                         files, i, tree, meta_dir, enabled, broken)

\* lines 266-300 on the changes with their chunks: the added files are the
\* first n_added of chunked.files, the updated ones the rest
PlanChunked(changes, chunked, n_added, tree, meta_dir, enabled, broken) ==
    IF ~enabled
    THEN [changes EXCEPT
             !.added = SubSeq(chunked.files, 1, n_added),
             !.updated = SubSeq(chunked.files, n_added + 1, Len(chunked.files))]
    ELSE [changes EXCEPT
             !.added = SubSeq(chunked.files, 1, n_added),
             !.updated = KeptFiles(
                 PushUpdatedFrom(SubSeq(chunked.files, n_added + 1, Len(chunked.files)),
                                 1, tree, meta_dir, enabled, broken, chunked.next))]

\* lines 262-300 on the result of compare_file_sets
PlanPush(changes, tree, meta_dir, enabled, broken) ==
    PlanChunked(changes, AssignChunks(changes.added \o changes.updated, 1, 0),
                Len(changes.added), tree, meta_dir, enabled, broken)

get_push_changes(md, tree, meta_dir, enabled, broken) ==
    PlanPush(compare_file_sets(md.files, inspect_files(tree)), tree, meta_dir,
             enabled, broken)

\* lines 279-280: diff_file, the changeset's file in the meta directory
\* (its name without the uuid: the changesets of a path share one name)
DiffFile(path) == WithTail(path, "-diff")

\* line 282 for one updated file: create_changeset writes diff_file
WriteDiffFile(meta_dir, path, tree, enabled, broken) ==
    IF is_versioned_file(path, enabled) /\ ~DiffRaises(path, tree, meta_dir, broken)
    THEN WriteFile(meta_dir, DiffFile(path),
                   Touched(Changeset(meta_dir[path], DbContent(tree, path))))
    ELSE meta_dir

RECURSIVE DiffFilesFrom(_, _, _, _, _, _)
DiffFilesFrom(files, i, tree, meta_dir, enabled, broken) ==
    IF i > Len(files) THEN meta_dir
    ELSE DiffFilesFrom(files, i + 1, tree,
                       WriteDiffFile(meta_dir, files[i].path, tree, enabled, broken),
                       enabled, broken)

\* the meta directory get_push_changes leaves behind
MetaAfterPlan(md, tree, meta_dir, enabled, broken) ==
    IF ~enabled THEN meta_dir
    ELSE DiffFilesFrom(compare_file_sets(md.files, inspect_files(tree)).updated,
                       1, tree, meta_dir, enabled, broken)

---------------------------------------------------------------------------
(* backup_file *)

None == [none |-> TRUE]

CopyTails == <<"_conflict_copy", "_conflict_copy2", "_conflict_copy3">>

\* variant: the first backup path, free or not
FreeCopy_First(tree, file) == 1

\* the while loop: index of the first backup path that does not exist yet
\* (0 when the model's names are used up)
FreeCopy(tree, file) ==
    LET free == {i \in DOMAIN CopyTails : ~Exists(tree, WithTail(file, CopyTails[i]))}
    IN  IF free = {} THEN 0 ELSE CHOOSE i \in free : \A j \in free : i <= j

\* shutil.copy(src, backup_path) with the index of the free path
BackupAt(tree, file, free) ==
    IF free = 0
    THEN [tree |-> tree, path |-> None, overflow |-> TRUE]
    ELSE [tree |-> WriteFile(tree, WithTail(file, CopyTails[free]), tree[file]),
          path |-> WithTail(file, CopyTails[free]),
          overflow |-> FALSE]

backup_file(tree, file) ==
    IF ~Exists(tree, file)
    THEN [tree |-> tree, path |-> None, overflow |-> FALSE]
    ELSE BackupAt(tree, file, FreeCopy(tree, file))

---------------------------------------------------------------------------
(* apply_pull_changes.  The run is a fold over the plan's entries of a      *)
(* record st: working tree, meta directory, temp directory, the conflicts   *)
(* list, whether no exception was raised so far, the set `modified`, and a  *)
(* log with one record per entry processed.                                 *)

\* move_file (mergin/utils.py): rename src to dest, replacing dest
MoveFile(dir, src, dest) ==
    IF src = dest THEN dir ELSE WriteFile(RemoveFile(dir, src), dest, dir[src])

Raise(st) == [st EXCEPT !.ok = FALSE]

\* the log record of an entry: its group and path, the branch taken, the
\* local content found, the conflict copy made, and for a failed rebase
\* whether the library raised at a call that was set to raise ("library")
\* or on the data ("data")
LoggedCause(st, k, path, branch, before, conflict, cause) ==
    [st EXCEPT !.log = Append(@, [kind |-> k, path |-> path, branch |-> branch,
                                  local |-> before, conflict |-> conflict,
                                  cause |-> cause])]

Logged(st, k, path, branch, before, conflict) ==
    LoggedCause(st, k, path, branch, before, conflict, "none")

\* conflict = self.backup_file(path); conflicts.append(conflict)
Conflicted(st, b) ==
    [st EXCEPT !.tree = b.tree,
               !.conflicts = Append(@, b.path),
               !.overflow = @ \/ b.overflow]

BackupConflict(st, path) == Conflicted(st, backup_file(st.tree, path))

RemoveIfExists(dir, p) == IF Exists(dir, p) THEN RemoveFile(dir, p) ELSE dir

ContentOrNone(dir, p) == IF Exists(dir, p) THEN dir[p] ELSE None

\* variant: the server's changeset is applied to every file of the meta
\* directory it can be applied to
UpdateBasefile_All(meta_dir, path, server_diff) ==
    [q \in DOMAIN meta_dir |->
        IF Applies(meta_dir[q], server_diff)
        THEN Patched(meta_dir[q], server_diff)
        ELSE meta_dir[q]]

\* line 380: self.geodiff.apply_changeset(basefile, server_diff)
UpdateBasefile(meta_dir, path, server_diff) ==
    WriteFile(meta_dir, path, Patched(meta_dir[path], server_diff))

\* lines 387-393, on the state with dest reverted and backed up: basefile
\* and dest from the server's file, the sidecars removed
ConflictItem(saved, path, src, before, cause) ==
    LoggedCause([saved EXCEPT
                    !.tree = RemoveIfExists(
                                 RemoveIfExists(WriteFile(saved.tree, path, src),
                                                WithTail(path, "-wal")),
                                 WithTail(path, "-shm")),
                    !.meta_dir = WriteFile(saved.meta_dir, path, src)],
                "updated", path, "conflict", before,
                saved.conflicts[Len(saved.conflicts)], cause)

\* lines 358-393: a versioned file updated on the server and modified locally
RebaseItem(st, path, broken) ==
    LET src        == st.tmp[path]
        base_there == Exists(st.meta_dir, path)
        dest_there == Exists(st.tree, path)
        before     == IF dest_there THEN DbContent(st.tree, path) ELSE None
        tmp1       == WriteFile(st.tmp, WithTail(path, "-server_backup"), src)
        \* first try block: the local changes as a changeset, applied to a
        \* copy of the basefile
        diffed     == base_there /\ dest_there /\ "local_diff" \notin broken
        local_diff == Changeset(st.meta_dir[path], DbContent(st.tree, path))
        patched    == /\ diffed
                      /\ "local_apply" \notin broken
                      /\ Applies(st.meta_dir[path], local_diff)
        tmp2       == IF diffed
                      THEN WriteFile(tmp1, WithTail(path, "-local_diff"), Touched(local_diff))
                      ELSE tmp1
        backup     == IF patched
                      THEN Patched(st.meta_dir[path], local_diff)
                      ELSE st.tree[path]
        tmp3       == WriteFile(tmp2, WithTail(path, "-local_backup"), backup)
        \* second try block: server changeset, rebase, basefile update
        sdiffed    == base_there /\ "server_diff" \notin broken
        server_diff == Changeset(st.meta_dir[path], src)
        rebased    == /\ sdiffed
                      /\ "rebase" \notin broken
                      /\ Rebases(st.meta_dir[path], src, DbContent(st.tree, path))
        applied    == /\ rebased
                      /\ "base_apply" \notin broken
                      /\ Applies(st.meta_dir[path], server_diff)
        tmp4       == IF sdiffed
                      THEN WriteFile(tmp3, WithTail(path, "-server_diff"), Touched(server_diff))
                      ELSE tmp3
    IN  IF ~patched /\ ~dest_there
        THEN Raise([st EXCEPT !.tmp = tmp2])
        ELSE IF applied
             THEN Logged([st EXCEPT
                            !.tmp = tmp4,
                            !.tree = DbWrite(st.tree, path,
                                      Rebased(st.meta_dir[path], src,
                                              DbContent(st.tree, path))),
                            !.meta_dir = UpdateBasefile(st.meta_dir, path,
                                                        server_diff)],
                         "updated", path, "merged", before, None)
             ELSE ConflictItem(
                      BackupConflict([st EXCEPT !.tmp = tmp4,
                                                !.tree = WriteFile(st.tree, path, backup)],
                                     path),
                      path, src, before,
                      IF broken \cap {"server_diff", "rebase", "base_apply"} # {}
                      THEN "library" ELSE "data")

\* lines 395-397: a versioned file updated on the server only
ServerCopyItem(st, path) ==
    IF ~Exists(st.tmp, path) THEN Raise(st)
    ELSE Logged([st EXCEPT !.tree = WriteFile(st.tree, path, st.tmp[path]),
                           !.meta_dir = WriteFile(st.meta_dir, path, st.tmp[path])],
                "updated", path, "server", ContentOrNone(st.tree, path), None)

\* lines 404-415 after the backup: remove, rename or copy
PlainItem(st, k, item, path, enabled, before, conflict) ==
    IF k = "removed"
    THEN IF ~Exists(st.tree, path) THEN Raise(st)
         ELSE LET st1 == [st EXCEPT !.tree = RemoveFile(st.tree, path)]
              IN  IF ~is_versioned_file(path, enabled)
                  THEN Logged(st1, k, path, "plain", before, conflict)
                  ELSE IF ~Exists(st.meta_dir, path) THEN Raise(st1)
                       ELSE Logged([st1 EXCEPT !.meta_dir = RemoveFile(st.meta_dir, path)],
                                   k, path, "plain", before, conflict)
    ELSE IF k = "renamed"
    THEN IF ~Exists(st.tree, item.path) THEN Raise(st)
         ELSE LET st1 == [st EXCEPT !.tree = MoveFile(st.tree, item.path, path)]
              IN  IF ~is_versioned_file(path, enabled)
                  THEN Logged(st1, k, path, "plain", before, conflict)
                  ELSE IF ~Exists(st.meta_dir, item.path) THEN Raise(st1)
                       ELSE Logged([st1 EXCEPT
                                       !.meta_dir = MoveFile(st.meta_dir, item.path, path)],
                                   k, path, "plain", before, conflict)
    ELSE IF ~Exists(st.tmp, path) THEN Raise(st)
         ELSE LET st1 == [st EXCEPT !.tree = WriteFile(st.tree, path, st.tmp[path])]
              IN  IF ~is_versioned_file(path, enabled)
                  THEN Logged(st1, k, path, "plain", before, conflict)
                  ELSE Logged([st1 EXCEPT
                                  !.meta_dir = WriteFile(st.meta_dir, path, st.tmp[path])],
                              k, path, "plain", before, conflict)

\* lines 404-415 when a backup was made
PlainAfterBackup(saved, k, item, path, enabled, before) ==
    PlainItem(saved, k, item, path, enabled, before,
              saved.conflicts[Len(saved.conflicts)])

\* variant: no file is backed up before it is removed, replaced or copied
ApplyPullItem_NoBackup(st, k, item, modified, local_files_map, enabled, broken) ==
    LET path == IF k # "renamed" THEN item.path ELSE item.new_path
    IN  IF is_versioned_file(path, enabled) /\ k = "updated"
        THEN IF path \in modified
             THEN RebaseItem(st, path, broken)
             ELSE ServerCopyItem(st, path)
        ELSE PlainItem(st, k, item, path, enabled, ContentOrNone(st.tree, path), None)

\* the body of the loop, lines 349-415
ApplyPullItem(st, k, item, modified, local_files_map, enabled, broken) ==
    LET path == IF k # "renamed" THEN item.path ELSE item.new_path
    IN  IF is_versioned_file(path, enabled) /\ k = "updated"
        THEN IF path \in modified
             THEN RebaseItem(st, path, broken)
             ELSE ServerCopyItem(st, path)
        ELSE LET before == ContentOrNone(st.tree, path)
             IN  IF /\ path \in modified
                    /\ item.checksum # local_files_map[path].checksum
                 THEN PlainAfterBackup(BackupConflict(st, path), k, item, path,
                                       enabled, before)
                 ELSE PlainItem(st, k, item, path, enabled, before, None)

\* changes.items(): the groups in the order compare_file_sets builds the dict
PlanEntries(changes) ==
    [i \in DOMAIN changes.renamed |-> [k |-> "renamed", item |-> changes.renamed[i]]]
    \o [i \in DOMAIN changes.added |-> [k |-> "added", item |-> changes.added[i]]]
    \o [i \in DOMAIN changes.removed |-> [k |-> "removed", item |-> changes.removed[i]]]
    \o [i \in DOMAIN changes.updated |-> [k |-> "updated", item |-> changes.updated[i]]]

RECURSIVE ApplyPullFrom(_, _, _, _, _, _, _)
ApplyPullFrom(st, entries, i, modified, local_files_map, enabled, broken) ==
    IF i > Len(entries) \/ ~st.ok THEN st
    ELSE ApplyPullFrom(
             ApplyPullItem(st, entries[i].k, entries[i].item, modified,
                           local_files_map, enabled, broken),
             entries, i + 1, modified, local_files_map, enabled, broken)

\* lines 336-341: the paths the user has added, updated or renamed to
ModifiedPaths(local_changes) ==
    PathsOf(local_changes.added) \cup PathsOf(local_changes.updated)
        \cup {local_changes.renamed[i].new_path : i \in DOMAIN local_changes.renamed}

\* lines 343-345
FilesMap(files) == [q \in PathsOf(files) |-> origin_map(files, q)]

LocalFilesMap(tree) == FilesMap(inspect_files(tree))

\* lines 347-417 with `modified` computed, on the meta directory
\* get_push_changes has left
ApplyPullModified(changes, temp_dir, tree, meta_dir, modified, enabled, broken) ==
    ApplyPullFrom(
        [tree |-> tree, meta_dir |-> meta_dir, tmp |-> temp_dir,
         conflicts |-> <<>>, ok |-> TRUE, overflow |-> FALSE, log |-> <<>>,
         modified |-> modified],
        PlanEntries(changes), 1, modified, LocalFilesMap(tree), enabled, broken)

apply_pull_changes(changes, temp_dir, md, tree, meta_dir, enabled, broken) ==
    ApplyPullModified(
        changes, temp_dir, tree,
        MetaAfterPlan(md, tree, meta_dir, enabled, broken),
        ModifiedPaths(get_push_changes(md, tree, meta_dir, enabled, broken)),
        enabled, broken)

---------------------------------------------------------------------------
(* apply_diffs and apply_push_changes *)

\* variant: a changeset that cannot be applied is skipped without an error
apply_diffs_Silent(meta_dir, path, cs, enabled, broken) ==
    IF \/ ~is_versioned_file(path, enabled)
       \/ "push_apply" \in broken
       \/ ~Exists(meta_dir, path)
       \/ ~Applies(meta_dir[path], cs)
    THEN [meta_dir |-> meta_dir, error |-> FALSE]
    ELSE [meta_dir |-> WriteFile(meta_dir, path, Patched(meta_dir[path], cs)),
          error |-> FALSE]

\* apply_diffs(basefile, [changeset]) with one changeset: the patched meta
\* directory, and whether an error message is returned
apply_diffs(meta_dir, path, cs, enabled, broken) ==
    IF ~is_versioned_file(path, enabled)
    THEN [meta_dir |-> meta_dir, error |-> FALSE]
    ELSE IF \/ "push_apply" \in broken
            \/ ~Exists(meta_dir, path)
            \/ ~Applies(meta_dir[path], cs)
         THEN [meta_dir |-> meta_dir, error |-> TRUE]
         ELSE [meta_dir |-> WriteFile(meta_dir, path, Patched(meta_dir[path], cs)),
               error |-> FALSE]

\* the body of the loop, lines 430-452, on st = [meta_dir, ok, lost]; lost
\* collects the paths whose basefile line 450 has removed
ApplyPushItem(st, k, item, tree, enabled, broken) ==
    LET path == IF k # "renamed" THEN item.path ELSE item.new_path
    IN  IF ~is_versioned_file(path, enabled) THEN st
        ELSE IF k = "renamed"
        THEN IF ~Exists(st.meta_dir, item.path) THEN Raise(st)
             ELSE [st EXCEPT !.meta_dir = MoveFile(st.meta_dir, item.path, path)]
        ELSE IF k = "removed"
        THEN IF ~Exists(st.meta_dir, path) THEN Raise(st)
             ELSE [st EXCEPT !.meta_dir = RemoveFile(st.meta_dir, path)]
        ELSE IF k = "added"
        THEN IF ~Exists(tree, path) THEN Raise(st)
             ELSE [st EXCEPT !.meta_dir = WriteFile(st.meta_dir, path, tree[path])]
        ELSE IF "diff" \notin DOMAIN item THEN st
        ELSE LET r == apply_diffs(st.meta_dir, path, item.diff.changeset,
                                  enabled, broken)
             IN  IF ~r.error THEN [st EXCEPT !.meta_dir = r.meta_dir]
                 ELSE IF ~Exists(st.meta_dir, path) THEN Raise(st)
                      ELSE [st EXCEPT !.meta_dir = RemoveFile(st.meta_dir, path),
                                      !.lost = @ \cup {path}]

RECURSIVE ApplyPushFrom(_, _, _, _, _, _)
ApplyPushFrom(st, entries, i, tree, enabled, broken) ==
    IF i > Len(entries) \/ ~st.ok THEN st
    ELSE ApplyPushFrom(
             ApplyPushItem(st, entries[i].k, entries[i].item, tree, enabled, broken),
             entries, i + 1, tree, enabled, broken)

apply_push_changes(changes, tree, meta_dir, enabled, broken) ==
    IF ~enabled THEN [meta_dir |-> meta_dir, ok |-> TRUE, lost |-> {}]
    ELSE ApplyPushFrom([meta_dir |-> meta_dir, ok |-> TRUE, lost |-> {}],
                       PlanEntries(changes), 1, tree, enabled, broken)

---------------------------------------------------------------------------
(* Inputs of the change detector: fingerprint lists with unique paths.      *)

Checksums == {1, 2}
Sizes == {6, 7}

Fingerprints == [path : BasePaths, checksum : Checksums, size : Sizes]

RECURSIVE ListsOver(_, _)
ListsOver(paths, n) ==
    IF n = 0 THEN {<<>>}
    ELSE {<<>>} \cup
         UNION {{<<f>> \o rest : rest \in ListsOver(paths \ {f.path}, n - 1)} :
                    f \in {g \in Fingerprints : g.path \in paths}}

FileLists == ListsOver(BasePaths, MaxFiles)

PlanIdle ==
    /\ planMeta = NoResult
    /\ planServer = <<>>
    /\ planGeodiff = FALSE
    /\ planResult = NoResult

CmpIdle ==
    /\ cmpOrigin = <<>>
    /\ cmpCurrent = <<>>
    /\ cmpResult = NoResult

SysIdle ==
    /\ geodiff = FALSE
    /\ wt = <<>>
    /\ metaDir = <<>>
    /\ metadata = NoResult
    /\ server = NoResult
    /\ last = NoResult
    /\ count = NoResult

BkIdle ==
    /\ bkFile = NoResult
    /\ bkBefore = <<>>
    /\ bkTree = <<>>
    /\ bkResult = NoResult

CmpInit ==
    /\ cmpOrigin \in FileLists
    /\ cmpCurrent \in FileLists
    /\ cmpResult = NoResult
    /\ PlanIdle
    /\ SysIdle
    /\ BkIdle

CompareFileSets ==
    /\ cmpResult = NoResult
    /\ cmpResult' = compare_file_sets(cmpOrigin, cmpCurrent)
    /\ UNCHANGED <<cmpOrigin, cmpCurrent, planVars, sysVars, bkVars>>

CmpNext == CompareFileSets

CmpSpec == CmpInit /\ [][CmpNext]_vars

---------------------------------------------------------------------------
(* Inputs of backup_file: a file, there or not, in a working tree that      *)
(* holds some of its conflict copies already; the call is made again and    *)
(* again, as conflict follows conflict.                                     *)

\* the trees over the paths ps: each path absent, or there with a content
RECURSIVE TreesOver(_)
TreesOver(ps) ==
    IF ps = {} THEN {<<>>}
    ELSE LET p == CHOOSE q \in ps : TRUE
         IN  UNION {{rest} \cup {WriteFile(rest, p, c) : c \in Contents} :
                       rest \in TreesOver(ps \ {p})}

BkInit ==
    /\ bkFile \in {GpkgA, TxtC}
    /\ bkTree \in TreesOver({bkFile} \cup
                      {WithTail(bkFile, CopyTails[i]) : i \in 1..MaxCopies})
    /\ bkBefore = bkTree
    /\ bkResult = NoResult
    /\ CmpIdle
    /\ PlanIdle
    /\ SysIdle

BackupFile ==
    /\ Exists(bkTree, bkFile) => FreeCopy(bkTree, bkFile) # 0
    /\ bkBefore' = bkTree
    /\ bkTree' = backup_file(bkTree, bkFile).tree
    /\ bkResult' = backup_file(bkTree, bkFile).path
    /\ UNCHANGED <<bkFile, cmpVars, planVars, sysVars>>

BkNext == BackupFile

BkSpec == BkInit /\ [][BkNext]_vars

---------------------------------------------------------------------------
(* Inputs of the pull planner: the local metadata holds a.gpkg and c.txt   *)
(* at some version; the server lists a.gpkg, changed or not, with a history *)
(* mapping in any order of its keys, and a second file.                     *)

VersionTokens == {Token(n) : n \in 8..(7 + MaxHistory)}

FileSizes == {SIZE_LIMIT, SIZE_LIMIT + 1}
DiffSizes == {SIZE_LIMIT \div 4, SIZE_LIMIT \div 2, (SIZE_LIMIT \div 2) + 1}

DiffPath(p, tok) == [of |-> p, at |-> tok]

HistoryEntries(p, tok) ==
    {[version |-> tok, entry |-> [change |-> "updated"]]} \cup
    {[version |-> tok,
      entry |-> [change |-> "updated",
                 diff |-> [path |-> DiffPath(p, tok), size |-> n]]] :
        n \in DiffSizes}

RECURSIVE HistoriesOver(_, _)
HistoriesOver(p, toks) ==
    {<<>>} \cup
    UNION {{<<e>> \o rest : rest \in HistoriesOver(p, toks \ {tok}),
                            e \in HistoryEntries(p, tok)} : tok \in toks}

\* the second file of the server's list: c.txt, changed or not, or, with
\* c.txt gone, a new b.gpkg that has or has not the size of c.txt
SecondEntries ==
    {[path |-> TxtC, checksum |-> d, size |-> SIZE_LIMIT + 1] : d \in Checksums}
    \cup {[path |-> GpkgB, checksum |-> 1, size |-> n, history |-> <<>>] :
              n \in FileSizes}

PlanInit ==
    /\ planMeta \in
          {[version |-> v,
            files |-> <<[path |-> GpkgA, checksum |-> 1, size |-> SIZE_LIMIT],
                        [path |-> TxtC, checksum |-> 1, size |-> SIZE_LIMIT]>>] :
              v \in VersionTokens}
    /\ planServer \in
          {<<[path |-> GpkgA, checksum |-> c, size |-> n, history |-> h], g>> :
              c \in Checksums, n \in FileSizes,
              h \in HistoriesOver(GpkgA, VersionTokens),
              g \in SecondEntries}
    /\ planGeodiff \in BOOLEAN
    /\ planResult = NoResult
    /\ CmpIdle
    /\ SysIdle
    /\ BkIdle

GetPullChanges ==
    /\ planResult = NoResult
    /\ planResult' = get_pull_changes(planMeta, planServer, planGeodiff)
    /\ UNCHANGED <<planMeta, planServer, planGeodiff, cmpVars, sysVars, bkVars>>

PlanNext == GetPullChanges

PlanSpec == PlanInit /\ [][PlanNext]_vars

---------------------------------------------------------------------------
(* The project in use: the user edits the working tree, other clients       *)
(* commit to the server, and the client pulls and pushes.                   *)

Structured(p) == splitext_ext(p) \in {".gpkg", ".sqlite"}

\* the server's file list: fingerprints, with the history of versioned files
ServerListing(srv, walk) ==
    [i \in DOMAIN walk |->
        IF Structured(walk[i])
        THEN ("history" :> srv.history[walk[i]])
                 @@ Fingerprint(walk[i], srv.files[walk[i]])
        ELSE Fingerprint(walk[i], srv.files[walk[i]])]

ServerFiles(srv) == ServerListing(srv, WalkOrder(DOMAIN srv.files))

ServerInfo(srv) == [version |-> srv.version, files |-> ServerFiles(srv)]

NextVersion(srv) == Token(int_version(srv.version) + 1)

FullEntry(tok) == [version |-> tok, entry |-> [change |-> "full"]]

DiffEntry(p, tok, cs) ==
    [version |-> tok,
     entry |-> [change |-> "diff",
                diff |-> [path |-> DiffPath(p, tok), size |-> ChangesetSize(cs)]]]

HistoryOf(srv, p) == IF p \in DOMAIN srv.history THEN srv.history[p] ELSE <<>>

\* the server stores a full file
ServerStore(srv, tok, p, c) ==
    [srv EXCEPT !.files = WriteFile(@, p, c),
                !.history = IF Structured(p)
                            THEN WriteFile(@, p, Append(HistoryOf(srv, p), FullEntry(tok)))
                            ELSE @]

\* the server applies an uploaded changeset to its file
ServerPatch(srv, tok, p, cs) ==
    [srv EXCEPT !.files = WriteFile(@, p, Patched(srv.files[p], cs)),
                !.history = WriteFile(@, p, Append(HistoryOf(srv, p), DiffEntry(p, tok, cs)))]

ServerDrop(srv, p) ==
    [srv EXCEPT !.files = RemoveFile(@, p),
                !.history = RemoveIfExists(@, p)]

InitialProject == (GpkgA :> {}) @@ (TxtC :> {})

\* what a new file may hold
NewContents == {{}, {1}}

\* an edit of an existing file inserts or deletes one row
Edits(c) == {(c \cup {r}) \ (c \cap {r}) : r \in Rows}

\* `last` is the record of the last sync, emptied by every edit and
\* commit; its field lost holds the paths whose basefile a push has removed
\* since the project was downloaded, because its diff could not be applied
Fresh == [op |-> "none", lost |-> {}]

Idle == [op |-> "none", lost |-> last.lost]

\* a project just downloaded: working tree and basefiles as on the server
Init ==
    /\ geodiff \in BOOLEAN
    /\ LET files == InitialProject IN
          /\ server = [version |-> Token(1),
                       files |-> files,
                       history |-> [q \in {r \in DOMAIN files : Structured(r)} |->
                                       <<FullEntry(Token(1))>>]]
          /\ wt = files
          /\ metaDir = [q \in {r \in DOMAIN files : is_versioned_file(r, geodiff)} |->
                           files[q]]
    /\ metadata = ServerInfo(server)
    /\ last = Fresh
    /\ count = [edits |-> 0, commits |-> 0, syncs |-> 0, raised |-> 0]
    /\ CmpIdle
    /\ PlanIdle
    /\ BkIdle

WriteModes == {"closed", "pending"}

DropSidecars(tree, p) ==
    RemoveIfExists(RemoveIfExists(tree, WithTail(p, "-wal")), WithTail(p, "-shm"))

WithSidecars(tree, p, c) ==
    WriteFile(WriteFile(tree, WithTail(p, "-wal"), c), WithTail(p, "-shm"), {})

\* the user saves a file: a new one, or one more or one less row in an
\* existing one.  A database is written by an application that closes it
\* afterwards (checkpointed, no sidecars) or keeps it open with the change
\* still in the -wal
LocalWrite(p, c, mode) ==
    /\ count.edits < MaxEdits
    /\ count.syncs < MaxSyncs
    /\ IF Exists(wt, p) THEN c \in Edits(DbContent(wt, p)) ELSE c \in NewContents
    /\ mode # "closed" => Structured(p) /\ Exists(wt, p)
    /\ wt' = IF mode = "closed"
             THEN WriteFile(DropSidecars(wt, p), p, c)
             ELSE WithSidecars(wt, p, c)
    /\ count' = [count EXCEPT !.edits = @ + 1]
    /\ last' = Idle
    /\ UNCHANGED <<geodiff, metaDir, metadata, server, cmpVars, planVars, bkVars>>

\* the user closes and deletes a file
LocalDelete(p) ==
    /\ count.edits < MaxEdits
    /\ count.syncs < MaxSyncs
    /\ Exists(wt, p)
    /\ wt' = RemoveFile(DropSidecars(wt, p), p)
    /\ count' = [count EXCEPT !.edits = @ + 1]
    /\ last' = Idle
    /\ UNCHANGED <<geodiff, metaDir, metadata, server, cmpVars, planVars, bkVars>>

\* the user closes and renames a file
LocalRename(p, q) ==
    /\ count.edits < MaxEdits
    /\ count.syncs < MaxSyncs
    /\ Exists(wt, p)
    /\ ~Exists(wt, q)
    /\ wt' = WriteFile(RemoveFile(DropSidecars(wt, p), p), q, DbContent(wt, p))
    /\ count' = [count EXCEPT !.edits = @ + 1]
    /\ last' = Idle
    /\ UNCHANGED <<geodiff, metaDir, metadata, server, cmpVars, planVars, bkVars>>

\* another client's push of a new file, or of a changeset to a file (the
\* whole file when it is not versioned)
ServerPut(p, c) ==
    /\ count.commits < MaxCommits
    /\ count.syncs < MaxSyncs
    /\ IF Exists(server.files, p) THEN c \in Edits(server.files[p])
                                  ELSE c \in NewContents
    /\ server' = [(IF Structured(p) /\ Exists(server.files, p)
                   THEN ServerPatch(server, NextVersion(server), p,
                                    Changeset(server.files[p], c))
                   ELSE ServerStore(server, NextVersion(server), p, c))
                  EXCEPT !.version = NextVersion(server)]
    /\ count' = [count EXCEPT !.commits = @ + 1]
    /\ last' = Idle
    /\ UNCHANGED <<geodiff, wt, metaDir, metadata, cmpVars, planVars, bkVars>>

ServerRemove(p) ==
    /\ count.commits < MaxCommits
    /\ count.syncs < MaxSyncs
    /\ Exists(server.files, p)
    /\ server' = [ServerDrop(server, p) EXCEPT !.version = NextVersion(server)]
    /\ count' = [count EXCEPT !.commits = @ + 1]
    /\ last' = Idle
    /\ UNCHANGED <<geodiff, wt, metaDir, metadata, cmpVars, planVars, bkVars>>

ServerRename(p, q) ==
    /\ count.commits < MaxCommits
    /\ count.syncs < MaxSyncs
    /\ Exists(server.files, p)
    /\ ~Exists(server.files, q)
    /\ server' = [ServerStore(ServerDrop(server, p), NextVersion(server), q,
                              server.files[p])
                  EXCEPT !.version = NextVersion(server)]
    /\ count' = [count EXCEPT !.commits = @ + 1]
    /\ last' = Idle
    /\ UNCHANGED <<geodiff, wt, metaDir, metadata, cmpVars, planVars, bkVars>>

BrokenSets(sites) ==
    IF geodiff THEN {b \in SUBSET sites : Cardinality(b) <= MaxBroken} ELSE {{}}

\* the temp directory after the download: every added and updated file
Downloaded(changes) ==
    [q \in PathsOf(changes.added) \cup PathsOf(changes.updated) |-> server.files[q]]

\* the state after apply_pull_changes has returned or raised: the metadata
\* is written when it has returned.  `retry` records that this pull follows
\* a pull that raised, with nothing done in between
PullDone(changes, res) ==
    /\ ~res.overflow
    /\ wt' = res.tree
    /\ metaDir' = res.meta_dir
    /\ metadata' = IF res.ok THEN ServerInfo(server) ELSE metadata
    /\ last' = [op |-> "pull", ok |-> res.ok, changes |-> changes,
                conflicts |-> res.conflicts, log |-> res.log,
                modified |-> res.modified,
                lost |-> last.lost,
                pre_wt |-> wt, pre_meta |-> metaDir,
                pre_files |-> metadata.files,
                retry |-> (last.op = "pull" /\ ~last.ok)]
    /\ count' = [count EXCEPT !.syncs = @ + 1,
                              !.raised = @ + (IF res.ok THEN 0 ELSE 1)]

PullPlanned(changes, broken) ==
    PullDone(changes,
             apply_pull_changes(changes, Downloaded(changes), metadata, wt,
                                metaDir, geodiff, broken))

\* pull: plan, download, apply_pull_changes, then the metadata is written
Pull(broken) ==
    /\ count.syncs < MaxSyncs
    /\ metadata.version # server.version
    /\ PullPlanned(get_pull_changes(metadata, ServerFiles(server), geodiff), broken)
    /\ UNCHANGED <<geodiff, server, cmpVars, planVars, bkVars>>

\* the server takes the pushed changes in the order of the plan
ServerTakeItem(srv, tok, k, item, tree) ==
    IF ~srv.ok THEN srv
    ELSE IF k = "renamed"
    THEN IF ~Exists(srv.files, item.path) THEN [srv EXCEPT !.ok = FALSE]
         ELSE ServerStore(ServerDrop(srv, item.path), tok, item.new_path,
                          srv.files[item.path])
    ELSE IF k = "removed"
    THEN IF ~Exists(srv.files, item.path) THEN [srv EXCEPT !.ok = FALSE]
         ELSE ServerDrop(srv, item.path)
    ELSE IF "diff" \in DOMAIN item
    THEN IF \/ ~Exists(srv.files, item.path)
            \/ ~Applies(srv.files[item.path], item.diff.changeset)
         THEN [srv EXCEPT !.ok = FALSE]
         ELSE ServerPatch(srv, tok, item.path, item.diff.changeset)
    ELSE ServerStore(srv, tok, item.path, tree[item.path])

RECURSIVE ServerTakeFrom(_, _, _, _, _)
ServerTakeFrom(srv, tok, entries, i, tree) ==
    IF i > Len(entries) THEN srv
    ELSE ServerTakeFrom(
             ServerTakeItem(srv, tok, entries[i].k, entries[i].item, tree),
             tok, entries, i + 1, tree)

Committed(srv, taken) ==
    [version |-> NextVersion(srv), files |-> taken.files,
     history |-> taken.history, ok |-> taken.ok]

ServerTake(srv, changes, tree) ==
    Committed(srv,
              ServerTakeFrom([version |-> srv.version, files |-> srv.files,
                              history |-> srv.history, ok |-> TRUE],
                             NextVersion(srv), PlanEntries(changes), 1, tree))

\* the state after the server has taken the push, the metadata is written
\* and apply_push_changes has returned or raised
PushDone(changes, taken, res, broken) ==
    /\ taken.ok
    /\ server' = [version |-> taken.version, files |-> taken.files,
                  history |-> taken.history]
    /\ metadata' = ServerInfo(server')
    /\ metaDir' = res.meta_dir
    /\ last' = [op |-> "push", ok |-> res.ok, changes |-> changes,
                conflicts |-> <<>>, log |-> <<>>,
                broken |-> broken,
                lost |-> last.lost \cup res.lost,
                pre_wt |-> wt, pre_meta |-> metaDir,
                pre_files |-> metadata.files]
    /\ count' = [count EXCEPT !.syncs = @ + 1,
                              !.raised = @ + (IF res.ok THEN 0 ELSE 1)]

\* a push whose plan came out empty because every file the change detector
\* reported was dropped: nothing is uploaded
PushNothing(changes, broken) ==
    /\ PlanEntries(compare_file_sets(metadata.files, inspect_files(wt))) # <<>>
    /\ server' = server
    /\ metadata' = metadata
    /\ metaDir' = MetaAfterPlan(metadata, wt, metaDir, geodiff, broken)
    /\ last' = [op |-> "push", ok |-> TRUE, changes |-> changes,
                conflicts |-> <<>>, log |-> <<>>,
                broken |-> broken,
                lost |-> last.lost,
                pre_wt |-> wt, pre_meta |-> metaDir,
                pre_files |-> metadata.files]
    /\ count' = [count EXCEPT !.syncs = @ + 1]

PushUploaded(changes, broken) ==
    PushDone(changes, ServerTake(server, changes, wt),
                apply_push_changes(changes, wt,
                                   MetaAfterPlan(metadata, wt, metaDir, geodiff, broken),
                                   geodiff, broken),
                broken)

PushPlanned(changes, broken) ==
    IF PlanEntries(changes) = <<>>
    THEN PushNothing(changes, broken)
    ELSE PushUploaded(changes, broken)

\* push: plan, upload, the metadata is written, then apply_push_changes
Push(broken) ==
    /\ count.syncs < MaxSyncs
    /\ metadata.version = server.version
    /\ PushPlanned(get_push_changes(metadata, wt, metaDir, geodiff, broken), broken)
    /\ UNCHANGED <<geodiff, wt, cmpVars, planVars, bkVars>>

Next ==
    \/ \E p \in BasePaths, c \in Contents, mode \in WriteModes :
          LocalWrite(p, c, mode)
    \/ \E p \in BasePaths : LocalDelete(p)
    \/ \E p, q \in BasePaths : LocalRename(p, q)
    \/ \E p \in BasePaths, c \in Contents : ServerPut(p, c)
    \/ \E p \in BasePaths : ServerRemove(p)
    \/ \E p, q \in BasePaths : ServerRename(p, q)
    \/ \E broken \in BrokenSets(Sites \ {"push_apply"}) : Pull(broken)
    \/ \E broken \in BrokenSets({"push_diff", "push_apply"}) : Push(broken)

Spec == Init /\ [][Next]_vars


---------------------------------------------------------------------------
(* Change detector: the groups a path of either input falls in.             *)

InGroup(group, p) == \E i \in DOMAIN group : group[i].path = p

InRenamed(moved, p) ==
    \E i \in DOMAIN moved : moved[i].new_path = p \/ moved[i].path = p

IsUnchanged(origin, current, p) ==
    /\ p \in PathsOf(origin)
    /\ p \in PathsOf(current)
    /\ origin_map(origin, p).checksum = origin_map(current, p).checksum

GroupsOf(origin, current, res, p) ==
    {g \in {"added", "removed", "updated", "renamed", "unchanged"} :
        \/ g = "added" /\ InGroup(res.added, p)
        \/ g = "removed" /\ InGroup(res.removed, p)
        \/ g = "updated" /\ InGroup(res.updated, p)
        \/ g = "renamed" /\ InRenamed(res.renamed, p)
        \/ g = "unchanged" /\ IsUnchanged(origin, current, p)}

\* C4: compare_file_sets is total and disjoint: every path of origin or
\* current is in exactly one of added, removed, updated, renamed (a renamed
\* entry accounts for its path and its new_path) and unchanged.
C4_TotalDisjoint ==
    cmpResult # NoResult =>
        \A p \in PathsOf(cmpOrigin) \cup PathsOf(cmpCurrent) :
            Cardinality(GroupsOf(cmpOrigin, cmpCurrent, cmpResult, p)) = 1

\* C5: every renamed entry pairs a path of origin that is not in current
\* with a path of current that is not in origin and has the same checksum
\* and size; neither path is left in added or removed.
C5_RenamedPairs ==
    cmpResult # NoResult =>
        \A i \in DOMAIN cmpResult.renamed :
            LET mf == cmpResult.renamed[i]
            IN  /\ mf.path \in PathsOf(cmpOrigin) \ PathsOf(cmpCurrent)
                /\ mf.new_path \in PathsOf(cmpCurrent) \ PathsOf(cmpOrigin)
                /\ origin_map(cmpCurrent, mf.new_path).checksum = mf.checksum
                /\ origin_map(cmpCurrent, mf.new_path).size = mf.size
                /\ \A p \in {mf.path, mf.new_path} :
                      /\ ~InGroup(cmpResult.added, p)
                      /\ ~InGroup(cmpResult.removed, p)

\* C6: a rename candidate is consumed by at most one removed entry: no two
\* renamed entries share a new_path.
C6_CandidateUsedOnce ==
    cmpResult # NoResult =>
        \A i, j \in DOMAIN cmpResult.renamed :
            i # j => cmpResult.renamed[i].new_path # cmpResult.renamed[j].new_path

---------------------------------------------------------------------------
(* Pull planner: what the inputs say about one server file.                 *)

LaterEntries(f, version) ==
    {i \in DOMAIN f.history :
        int_version(f.history[i].version) > int_version(version)}

RECURSIVE SumDiffSizes(_, _)
SumDiffSizes(f, idx) ==
    IF idx = {} THEN 0
    ELSE LET i == CHOOSE j \in idx : TRUE
         IN  f.history[i].entry.diff.size + SumDiffSizes(f, idx \ {i})

\* a structured file of the server whose checksum differs from the metadata's
UpdatedStructured(f) ==
    /\ splitext_ext(f.path) \in {".gpkg", ".sqlite"}
    /\ f.path \in PathsOf(planMeta.files)
    /\ origin_map(planMeta.files, f.path).checksum # f.checksum

PlannedWithDiffs(p) ==
    \E i \in DOMAIN planResult.updated :
        /\ planResult.updated[i].path = p
        /\ "diffs" \in DOMAIN planResult.updated[i]

PlannedInFull(p) ==
    \E i \in DOMAIN planResult.updated :
        /\ planResult.updated[i].path = p
        /\ "diffs" \notin DOMAIN planResult.updated[i]

DiffsWanted(f) ==
    LET later == LaterEntries(f, planMeta.version)
    IN  /\ later # {}
        /\ \A i \in later : "diff" \in DOMAIN f.history[i].entry
        /\ f.size > SIZE_LIMIT
        /\ 2 * SumDiffSizes(f, later) < f.size

\* C7: with the diff engine available, an updated structured file gets
\* `diffs` exactly when its history has an entry later than the local
\* version, every later entry has a diff, its size is above SIZE_LIMIT and
\* the later diffs together are smaller than half the file.
C7_DiffsExactlyWhen ==
    (planResult # NoResult /\ planGeodiff) =>
        \A i \in DOMAIN planServer :
            UpdatedStructured(planServer[i]) =>
                (PlannedWithDiffs(planServer[i].path) <=> DiffsWanted(planServer[i]))

C7_Witness ==
    /\ planResult # NoResult
    /\ planGeodiff
    /\ \E i \in DOMAIN planServer :
          /\ UpdatedStructured(planServer[i])
          /\ Cardinality(LaterEntries(planServer[i], planMeta.version)) = 2
          /\ PlannedWithDiffs(planServer[i].path)

ForcedLater(f) ==
    \E i \in LaterEntries(f, planMeta.version) :
        "diff" \notin DOMAIN f.history[i].entry

\* C8: an updated structured file whose history has a later entry without a
\* diff stays in `updated` and gets no `diffs`.
C8_ForceUpdateInFull ==
    (planResult # NoResult /\ planGeodiff) =>
        \A i \in DOMAIN planServer :
            (UpdatedStructured(planServer[i]) /\ ForcedLater(planServer[i])) =>
                /\ PlannedInFull(planServer[i].path)
                /\ ~PlannedWithDiffs(planServer[i].path)

\* the forced entry is the last of the mapping, after a later entry whose
\* diff alone would have been taken
C8_Witness ==
    /\ planResult # NoResult
    /\ planGeodiff
    /\ \E i \in DOMAIN planServer :
          LET f == planServer[i]
          IN  /\ UpdatedStructured(f)
              /\ f.size > SIZE_LIMIT
              /\ Len(f.history) = 2
              /\ LaterEntries(f, planMeta.version) = {1, 2}
              /\ "diff" \in DOMAIN f.history[1].entry
              /\ 2 * f.history[1].entry.diff.size < f.size
              /\ "diff" \notin DOMAIN f.history[2].entry
              /\ PlannedInFull(f.path)

---------------------------------------------------------------------------
(* Push planner: the chunk plan of the push just made.                      *)

\* the least n with n * UPLOAD_CHUNK_SIZE >= size
CeilOfChunks(size) ==
    CHOOSE n \in 0..((size \div UPLOAD_CHUNK_SIZE) + 1) :
        /\ n * UPLOAD_CHUNK_SIZE >= size
        /\ n > 0 => (n - 1) * UPLOAD_CHUNK_SIZE < size

TransferSize(item) == IF "diff" \in DOMAIN item THEN item.diff.size ELSE item.size

PushedFiles == last.changes.added \o last.changes.updated

ChunkSlots(files) == {<<i, j>> \in (DOMAIN files) \X (1..4) : j <= Len(files[i].chunks)}

\* C9: in a push plan every added and updated entry has
\* len(chunks) = ceil(transfer_size / UPLOAD_CHUNK_SIZE), transfer_size being
\* the diff's size when the entry has a diff and the file's size otherwise,
\* and no chunk identifier occurs twice in the plan.
C9_ChunkPlan ==
    last.op = "push" =>
        /\ \A i \in DOMAIN PushedFiles :
              Len(PushedFiles[i].chunks) = CeilOfChunks(TransferSize(PushedFiles[i]))
        /\ \A s, t \in ChunkSlots(PushedFiles) :
              s # t => PushedFiles[s[1]].chunks[s[2]] # PushedFiles[t[1]].chunks[t[2]]

\* a push whose plan has an entry with a diff smaller than a chunk, and at
\* least two chunks in all
C9_Witness ==
    /\ last.op = "push"
    /\ \E i \in DOMAIN PushedFiles :
          /\ "diff" \in DOMAIN PushedFiles[i]
          /\ TransferSize(PushedFiles[i]) % UPLOAD_CHUNK_SIZE # 0
          /\ Len(PushedFiles[i].chunks) = 1
    /\ Cardinality(ChunkSlots(PushedFiles)) >= 2

---------------------------------------------------------------------------
(* Apply-Pull of a structured file that was updated on the server and       *)
(* modified locally, seen from the state after the pull.                    *)

RebaseRecords(branch) ==
    {i \in DOMAIN last.log : /\ last.log[i].kind = "updated"
                              /\ last.log[i].branch = branch}

InConflicts(q) == \E j \in DOMAIN last.conflicts : last.conflicts[j] = q

NoSidecars(p) ==
    /\ ~Exists(wt, WithTail(p, "-wal"))
    /\ ~Exists(wt, WithTail(p, "-shm"))

\* the conflict copies of p the pull has added to the working tree
NewCopies(p) ==
    {q \in DOMAIN wt \ DOMAIN last.pre_wt :
        \E i \in DOMAIN CopyTails : q = WithTail(p, CopyTails[i])}

\* C2: when a step of the rebase of P fails, a conflict copy of P holds the
\* local content (base plus local changes), the working-tree file and the
\* basefile of P equal the downloaded server version, P-wal and P-shm are
\* gone, and the path of the conflict copy is in the returned list.
C2_ConflictKeepsLocal ==
    last.op = "pull" =>
        \A i \in RebaseRecords("conflict") :
            LET rec == last.log[i]
            IN  /\ rec.conflict # None
                /\ InConflicts(rec.conflict)
                /\ Exists(wt, rec.conflict)
                /\ wt[rec.conflict] = rec.local
                /\ wt[rec.path] = server.files[rec.path]
                /\ Exists(metaDir, rec.path)
                /\ metaDir[rec.path] = server.files[rec.path]
                /\ NoSidecars(rec.path)

\* the part of C2 that does not depend on what the conflict copy holds
C2_ConflictSyncsToServer ==
    last.op = "pull" =>
        \A i \in RebaseRecords("conflict") :
            LET rec == last.log[i]
            IN  /\ rec.conflict # None
                /\ InConflicts(rec.conflict)
                /\ Exists(wt, rec.conflict)
                /\ wt[rec.path] = server.files[rec.path]
                /\ Exists(metaDir, rec.path)
                /\ metaDir[rec.path] = server.files[rec.path]
                /\ NoSidecars(rec.path)

\* the two sides of a rebase record, as they stood when the pull began:
\* base -> server and base -> local
ServerChange(rec) == Changeset(last.pre_meta[rec.path], server.files[rec.path])
LocalChange(rec) ==
    Changeset(last.pre_meta[rec.path], DbContent(last.pre_wt, rec.path))

NonOverlapping(rec) ==
    /\ Exists(last.pre_meta, rec.path)
    /\ Exists(last.pre_wt, rec.path)
    /\ Touched(ServerChange(rec)) \cap Touched(LocalChange(rec)) = {}

\* C3: when the local changes to P do not overlap the server's and the
\* rebase succeeds, the working-tree file holds the server's changes and the
\* local ones, the basefile equals the server version and P gets no
\* conflict copy.
C3_RebaseMerges ==
    last.op = "pull" =>
        \A i \in RebaseRecords("merged") \cup RebaseRecords("conflict") :
            LET rec == last.log[i]
            IN  (/\ NonOverlapping(rec)
                 /\ rec.cause # "library")
                => /\ rec.branch = "merged"
                   /\ ServerChange(rec).ins \cup LocalChange(rec).ins
                          \subseteq DbContent(wt, rec.path)
                   /\ (ServerChange(rec).del \cup LocalChange(rec).del)
                          \cap DbContent(wt, rec.path) = {}
                   /\ wt[rec.path] = DbContent(wt, rec.path)
                   /\ metaDir[rec.path] = server.files[rec.path]
                   /\ rec.conflict = None
                   /\ NewCopies(rec.path) = {}

\* the same for the pulls whose plan renames no file
C3_MergesWithoutRename ==
    (last.op = "pull" /\ Len(last.changes.renamed) = 0) =>
        \A i \in RebaseRecords("merged") \cup RebaseRecords("conflict") :
            LET rec == last.log[i]
            IN  (/\ NonOverlapping(rec)
                 /\ rec.cause # "library")
                => /\ rec.branch = "merged"
                   /\ ServerChange(rec).ins \cup LocalChange(rec).ins
                          \subseteq DbContent(wt, rec.path)
                   /\ (ServerChange(rec).del \cup LocalChange(rec).del)
                          \cap DbContent(wt, rec.path) = {}
                   /\ wt[rec.path] = DbContent(wt, rec.path)
                   /\ metaDir[rec.path] = server.files[rec.path]
                   /\ rec.conflict = None
                   /\ NewCopies(rec.path) = {}

---------------------------------------------------------------------------
(* The basefile mirror after completed syncs.                               *)

StructuredInTree == {p \in DOMAIN wt : Structured(p)}

\* C1: after completed syncs, every structured file of the working tree has
\* a basefile whose content is the server's content of the file at the
\* version the local metadata records.  Stated for a client whose diff
\* library is available: without it is_versioned_file is false for every
\* path and the code keeps no basefile at all.
C1_BasefileIsServerVersion ==
    (geodiff /\ last.op # "none" /\ count.raised = 0) =>
        /\ metadata.version = server.version
        /\ \A p \in StructuredInTree :
              /\ Exists(metaDir, p)
              /\ Exists(server.files, p)
              /\ metaDir[p] = server.files[p]

---------------------------------------------------------------------------
(* Inventory round trip.                                                    *)

\* an inventory as the set of its fingerprints
AsSet(files) ==
    {[path |-> files[i].path, checksum |-> files[i].checksum, size |-> files[i].size] :
        i \in DOMAIN files}

\* the working tree before the last pull had no local modification
PulledFromCleanTree ==
    /\ last.op = "pull"
    /\ AsSet(inspect_files(last.pre_wt)) = AsSet(last.pre_files)

\* C10: a pull into a working tree whose inventory equals the metadata
\* completes and leaves the working tree with exactly the paths and the
\* contents of the server.
C10_RoundTrip ==
    PulledFromCleanTree =>
        /\ last.ok
        /\ {p \in DOMAIN wt : ~ignore_file(p)} = DOMAIN server.files
        /\ \A p \in DOMAIN server.files : wt[p] = server.files[p]

\* the same for the pulls that did not raise
C10_RoundTripIfCompleted ==
    (PulledFromCleanTree /\ last.ok) =>
        /\ {p \in DOMAIN wt : ~ignore_file(p)} = DOMAIN server.files
        /\ \A p \in DOMAIN server.files : wt[p] = server.files[p]

---------------------------------------------------------------------------
(* A pull that raised, and the pull made right after it.                    *)

EntryPath(e) == IF e.k # "renamed" THEN e.item.path ELSE e.item.new_path

\* the paths an entry reads or writes
EntryFiles(e) == {e.item.path, EntryPath(e)}

SameFile(dir, old, p) ==
    /\ Exists(dir, p) <=> Exists(old, p)
    /\ Exists(dir, p) => dir[p] = old[p]

\* the first part of C11: after a pull that raised at entry n + 1 of its
\* plan, the n entries before it are applied and the files of the entries
\* after it, where no entry up to n + 1 shares them, are as they were.
C11_LaterEntriesUntouched ==
    (last.op = "pull" /\ ~last.ok) =>
        LET entries == PlanEntries(last.changes)
            n       == Len(last.log)
        IN  /\ n < Len(entries)
            /\ \A j \in (n + 2)..Len(entries) :
                  \A p \in EntryFiles(entries[j]) :
                      (\A i \in 1..(n + 1) : p \notin EntryFiles(entries[i]))
                      => /\ SameFile(wt, last.pre_wt, p)
                         /\ SameFile(metaDir, last.pre_meta, p)

\* C11: when Apply-Pull raises at an entry, the entries before it are
\* applied and the files of the entries after it are untouched, and a
\* second pull against the same server state completes.
C11_FailedPullRecovers ==
    /\ C11_LaterEntriesUntouched
    /\ (last.op = "pull" /\ last.retry) => last.ok

---------------------------------------------------------------------------
(* The paths of the basefile mirror.                                        *)

\* the basefiles of a meta directory: its files other than the changesets
Basefiles(meta_dir) == {p \in DOMAIN meta_dir : p.tail # "-diff"}

\* C12: after any sequence of pulls and pushes every basefile of the mirror
\* belongs to a structured path (.gpkg or .sqlite).
C12_MirrorIsStructured ==
    \A p \in Basefiles(metaDir) : Structured(p)

\* a completed pull or push, with the diff library, of a plan that renames a
\* structured file to a non-structured path or adds a non-structured file
C12_Witness ==
    /\ geodiff
    /\ last.op \in {"pull", "push"}
    /\ last.ok
    /\ \/ \E i \in DOMAIN last.changes.renamed :
              /\ Structured(last.changes.renamed[i].path)
              /\ ~Structured(last.changes.renamed[i].new_path)
       \/ \E i \in DOMAIN last.changes.added :
              ~Structured(last.changes.added[i].path)

---------------------------------------------------------------------------
(* backup_file: the copy made by the last call.                             *)

\* the first path of P_conflict_copy, P_conflict_copy2, ... that is not in
\* the tree
IsFirstFree(tree, file, q) ==
    \E k \in DOMAIN CopyTails :
        /\ q = WithTail(file, CopyTails[k])
        /\ ~Exists(tree, q)
        /\ \A j \in 1..(k - 1) : Exists(tree, WithTail(file, CopyTails[j]))

\* C13: backup_file of an existing file copies its content unchanged to the
\* first free path of P_conflict_copy, P_conflict_copy2, ..., returns that
\* path, and leaves every file that was there, the earlier copies
\* included, as it was.
C13_BackupToFirstFree ==
    (bkResult # NoResult /\ Exists(bkBefore, bkFile)) =>
        /\ IsFirstFree(bkBefore, bkFile, bkResult)
        /\ DOMAIN bkTree = DOMAIN bkBefore \cup {bkResult}
        /\ bkTree[bkResult] = bkBefore[bkFile]
        /\ \A q \in DOMAIN bkBefore : bkTree[q] = bkBefore[q]

\* the second conflict on a file: the first copy is there, holding another
\* content than the file, and the call returns P_conflict_copy2
C13_Witness ==
    /\ bkResult # NoResult
    /\ Exists(bkBefore, bkFile)
    /\ Exists(bkBefore, WithTail(bkFile, "_conflict_copy"))
    /\ bkBefore[WithTail(bkFile, "_conflict_copy")] # bkBefore[bkFile]
    /\ bkResult = WithTail(bkFile, "_conflict_copy2")

---------------------------------------------------------------------------
(* Where Apply-Pull leaves files.                                           *)

\* the changeset files of a meta directory
DiffFilesIn(meta_dir) == {p \in DOMAIN meta_dir : p.tail = "-diff"}

\* the files a pull is to leave in the working tree: the targets of its
\* plan and the conflict copies it returns
PullResults ==
    {EntryPath(PlanEntries(last.changes)[i]) : i \in DOMAIN PlanEntries(last.changes)}
        \cup {last.conflicts[j] : j \in DOMAIN last.conflicts}

\* the part of C14 about the working tree
C14_NoTransientInTree ==
    last.op = "pull" => (DOMAIN wt \ DOMAIN last.pre_wt) \subseteq PullResults

\* C14: Apply-Pull creates its transient files in the temp directory: none
\* in the working tree, none in the meta directory.
C14_TransientsInTempDir ==
    last.op = "pull" =>
        /\ (DOMAIN wt \ DOMAIN last.pre_wt) \subseteq PullResults
        /\ \A p \in DiffFilesIn(metaDir) \cup DiffFilesIn(last.pre_meta) :
              SameFile(metaDir, last.pre_meta, p)

---------------------------------------------------------------------------
(* Change detector: the updated group.                                      *)

DiffersFromOrigin(f) ==
    /\ f.path \in PathsOf(cmpOrigin)
    /\ origin_map(cmpOrigin, f.path).checksum # f.checksum

\* the first part of C15: `updated` holds the fingerprints of current whose
\* path is in origin with another checksum, each with the origin's checksum
C15_UpdatedExactly ==
    cmpResult # NoResult =>
        /\ \A i \in DOMAIN cmpCurrent :
              InGroup(cmpResult.updated, cmpCurrent[i].path)
                  <=> DiffersFromOrigin(cmpCurrent[i])
        /\ \A i \in DOMAIN cmpResult.updated :
              LET f == cmpResult.updated[i]
              IN  /\ f.path \in PathsOf(cmpOrigin)
                  /\ f.origin_checksum = origin_map(cmpOrigin, f.path).checksum
                  /\ f.checksum = origin_map(cmpCurrent, f.path).checksum

\* C15: a fingerprint of current is in `updated` exactly when its path is
\* in origin with another checksum, every updated entry carries the
\* origin's checksum as origin_checksum, and a path with equal checksums is
\* in no change group.
C15_UpdatedAndUnchanged ==
    cmpResult # NoResult =>
        /\ C15_UpdatedExactly
        /\ \A p \in PathsOf(cmpOrigin) \cap PathsOf(cmpCurrent) :
              IsUnchanged(cmpOrigin, cmpCurrent, p) =>
                  GroupsOf(cmpOrigin, cmpCurrent, cmpResult, p) = {"unchanged"}

---------------------------------------------------------------------------
(* Pull planner: the list of diffs of an updated file.                      *)

ServerEntry(p) == origin_map(planServer, p)

LaterDiffPaths(f) ==
    {f.history[i].entry.diff.path : i \in LaterEntries(f, planMeta.version)}

\* the part of C16 about which diffs are listed: those of the history
\* entries later than the local version, each once
C16_DiffsOfLaterEntries ==
    planResult # NoResult =>
        \A i \in DOMAIN planResult.updated :
            LET f == planResult.updated[i]
            IN  "diffs" \in DOMAIN f =>
                   /\ {f.diffs[j] : j \in DOMAIN f.diffs}
                          = LaterDiffPaths(ServerEntry(f.path))
                   /\ Len(f.diffs) = Cardinality(LaterDiffPaths(ServerEntry(f.path)))

\* C16: the diffs of an updated structured file are the diff paths of
\* exactly the history entries later than the local version, in ascending
\* order of their versions, whatever the order of the history mapping.
C16_DiffsAscending ==
    planResult # NoResult =>
        \A i \in DOMAIN planResult.updated :
            LET f == planResult.updated[i]
            IN  "diffs" \in DOMAIN f =>
                   /\ {f.diffs[j] : j \in DOMAIN f.diffs}
                          = LaterDiffPaths(ServerEntry(f.path))
                   /\ Len(f.diffs) = Cardinality(LaterDiffPaths(ServerEntry(f.path)))
                   /\ \A a, b \in DOMAIN f.diffs :
                          a < b => int_version(f.diffs[a].at) < int_version(f.diffs[b].at)

---------------------------------------------------------------------------
(* Pull planner: what it does to the plan of the change detector.           *)

Detected == compare_file_sets(planMeta.files, planServer)

\* C17: with the diff engine available, an updated entry is removed exactly
\* when the file is structured and its history has no entry later than the
\* local version; a non-structured updated entry stays and gets no diffs;
\* added, removed and renamed are as the change detector produced them.
C17_DropsOnlyUnchangedStructured ==
    (planResult # NoResult /\ planGeodiff) =>
        /\ \A i \in DOMAIN Detected.updated :
              LET f == Detected.updated[i]
              IN  /\ ~InGroup(planResult.updated, f.path)
                        <=> /\ splitext_ext(f.path) \in {".gpkg", ".sqlite"}
                            /\ LaterEntries(f, planMeta.version) = {}
                  /\ splitext_ext(f.path) \notin {".gpkg", ".sqlite"}
                        => \E j \in DOMAIN planResult.updated :
                              planResult.updated[j] = f
        /\ \A j \in DOMAIN planResult.updated : InGroup(Detected.updated, planResult.updated[j].path)
        /\ planResult.added = Detected.added
        /\ planResult.removed = Detected.removed
        /\ planResult.renamed = Detected.renamed

\* a.gpkg has another checksum on the server but no later history entry and
\* is dropped, while the plan keeps an updated c.txt or another group
C17_Witness ==
    /\ planResult # NoResult
    /\ planGeodiff
    /\ InGroup(Detected.updated, GpkgA)
    /\ ~InGroup(planResult.updated, GpkgA)
    /\ \/ InGroup(planResult.updated, TxtC)
       \/ planResult.renamed # <<>>
       \/ planResult.added # <<>>

---------------------------------------------------------------------------
(* Push planner: the outcome for each updated structured file, seen from    *)
(* the state after the push.                                                *)

\* what the change detector finds before the push
DetectedLocal == compare_file_sets(last.pre_files, inspect_files(last.pre_wt))

PushedEntry(p) == origin_map(last.changes.updated, p)

\* create_changeset fails: the library raises or there is no basefile
CreateFails(p) == "push_diff" \in last.broken \/ ~Exists(last.pre_meta, p)

LocalChangeset(p) == Changeset(last.pre_meta[p], DbContent(last.pre_wt, p))

\* the three outcomes of C18
FullUpload(f) ==
    /\ InGroup(last.changes.updated, f.path)
    /\ PushedEntry(f.path).checksum = f.checksum
    /\ "diff" \notin DOMAIN PushedEntry(f.path)
    /\ Len(PushedEntry(f.path).chunks) = CeilOfChunks(f.size)

Dropped(f) == ~InGroup(last.changes.updated, f.path)

DiffUpload(f) ==
    /\ InGroup(last.changes.updated, f.path)
    /\ PushedEntry(f.path).checksum = f.origin_checksum
    /\ "diff" \in DOMAIN PushedEntry(f.path)
    /\ {"path", "checksum", "size"} \subseteq DOMAIN PushedEntry(f.path).diff
    /\ PushedEntry(f.path).diff.size = ChangesetSize(LocalChangeset(f.path))
    /\ Len(PushedEntry(f.path).chunks) = CeilOfChunks(PushedEntry(f.path).diff.size)

\* C18: with the diff engine available every updated structured file gets
\* one of three outcomes: when creating the changeset fails it stays in
\* `updated` with its checksum, the chunks of its size and no diff; when
\* the changeset has no changes it is dropped; otherwise its checksum is
\* the origin's, its chunks are those of the diff's size and it has a diff.
C18_ThreeOutcomes ==
    (last.op = "push" /\ geodiff) =>
        \A i \in DOMAIN DetectedLocal.updated :
            LET f == DetectedLocal.updated[i]
            IN  Structured(f.path) =>
                   IF CreateFails(f.path) THEN FullUpload(f)
                   ELSE IF ~has_changes(LocalChangeset(f.path)) THEN Dropped(f)
                   ELSE DiffUpload(f) /\ ~FullUpload(f)

\* a push of a file whose diff needs fewer chunks than the file
C18_Witness ==
    /\ last.op = "push"
    /\ geodiff
    /\ \E i \in DOMAIN DetectedLocal.updated :
          LET f == DetectedLocal.updated[i]
          IN  /\ Structured(f.path)
              /\ ~CreateFails(f.path)
              /\ DiffUpload(f)
              /\ CeilOfChunks(f.size) # Len(PushedEntry(f.path).chunks)
              /\ f.checksum # f.origin_checksum

\* pushes in which creating the changeset failed, and in which a file with
\* another checksum had no changes
C18_FullUploadHappens ==
    /\ last.op = "push"
    /\ geodiff
    /\ \E i \in DOMAIN DetectedLocal.updated :
          Structured(DetectedLocal.updated[i].path)
              /\ CreateFails(DetectedLocal.updated[i].path)

C18_DropHappens ==
    /\ last.op = "push"
    /\ geodiff
    /\ \E i \in DOMAIN DetectedLocal.updated :
          /\ Structured(DetectedLocal.updated[i].path)
          /\ ~CreateFails(DetectedLocal.updated[i].path)
          /\ ~has_changes(LocalChangeset(DetectedLocal.updated[i].path))

---------------------------------------------------------------------------
(* Apply-Pull of the entries that are not rebased: when the local file is   *)
(* backed up.                                                               *)

\* the records of the entries handled by lines 398-415
PlainRecords == {i \in DOMAIN last.log : last.log[i].branch = "plain"}

\* the test of line 400 for the entry of record i
LocalDiffers(i) ==
    /\ last.log[i].path \in last.modified
    /\ Checksum(last.pre_wt[last.log[i].path]) # PlanEntries(last.changes)[i].item.checksum

CopyMade(i) ==
    /\ last.log[i].conflict # None
    /\ InConflicts(last.log[i].conflict)
    /\ Exists(wt, last.log[i].conflict)
    /\ ~Exists(last.pre_wt, last.log[i].conflict)

\* C19: for a non-structured updated entry P a conflict copy is made if
\* and only if P is locally modified with a checksum other than the
\* entry's, and P equals the downloaded server file afterwards; added,
\* removed and renamed entries make no conflict copy.
C19_OnlyUpdatedCopies ==
    last.op = "pull" =>
        \A i \in PlainRecords :
            IF last.log[i].kind = "updated"
            THEN ~Structured(last.log[i].path) =>
                    /\ CopyMade(i) <=> LocalDiffers(i)
                    /\ last.log[i].conflict # None <=> LocalDiffers(i)
                    /\ wt[last.log[i].path] = server.files[last.log[i].path]
            ELSE last.log[i].conflict = None

\* C19 as the code has it: every entry that is not rebased, whatever its
\* kind, makes a conflict copy if and only if its path is locally modified
\* with a checksum other than the entry's; after an updated entry P equals
\* the downloaded server file.
C19_CopyWhenLocalDiffers ==
    last.op = "pull" =>
        \A i \in PlainRecords :
            /\ CopyMade(i) <=> LocalDiffers(i)
            /\ last.log[i].conflict # None <=> LocalDiffers(i)
            /\ last.log[i].kind = "updated" =>
                   wt[last.log[i].path] = server.files[last.log[i].path]

\* a pull that replaced a locally modified c.txt by the server's, and one
\* entry of which, not an updated one, made a conflict copy
C19_Witness ==
    /\ last.op = "pull"
    /\ \E i \in PlainRecords :
          /\ last.log[i].kind = "updated"
          /\ ~Structured(last.log[i].path)
          /\ CopyMade(i)

C19_CopyForRemoved ==
    /\ last.op = "pull"
    /\ \E i \in PlainRecords :
          /\ last.log[i].kind \in {"removed", "added"}
          /\ CopyMade(i)

---------------------------------------------------------------------------
(* Apply-Pull of a removed entry.                                           *)

\* the removed entries the last pull came to
RemovedReached ==
    {i \in DOMAIN PlanEntries(last.changes) :
        /\ PlanEntries(last.changes)[i].k = "removed"
        /\ Len(last.log) >= i - 1}

RemovedApplied(i) ==
    /\ Len(last.log) >= i
    /\ ~Exists(wt, PlanEntries(last.changes)[i].item.path)
    /\ Structured(PlanEntries(last.changes)[i].item.path) =>
           ~Exists(metaDir, PlanEntries(last.changes)[i].item.path)

\* C20: Apply-Pull of a removed entry P completes for every local state of
\* P (unmodified, locally modified, already deleted locally, basefile
\* missing), and afterwards P is absent from the working tree and, when P
\* is structured, basefile(P) is absent from the mirror.
C20_RemovedCompletes ==
    last.op = "pull" => \A i \in RemovedReached : RemovedApplied(i)

\* the same for the local states in which P, and its basefile when the
\* code keeps one, exist when the pull starts
C20_RemovedWhenPresent ==
    last.op = "pull" =>
        \A i \in RemovedReached :
            (/\ Exists(last.pre_wt, PlanEntries(last.changes)[i].item.path)
             /\ is_versioned_file(PlanEntries(last.changes)[i].item.path, geodiff) =>
                    Exists(last.pre_meta, PlanEntries(last.changes)[i].item.path))
            => RemovedApplied(i)

\* a removed entry whose file is locally modified is applied
C20_RemovedModified ==
    /\ last.op = "pull"
    /\ \E i \in RemovedReached :
          /\ RemovedApplied(i)
          /\ PlanEntries(last.changes)[i].item.path \in last.modified

---------------------------------------------------------------------------
(* Apply-Pull of a renamed entry.                                           *)

\* the renamed entries the last pull came to, whose new path is new to the
\* client and whose file, and basefile when the code keeps one for the old
\* path, existed when the pull started
RenamedReached ==
    {i \in DOMAIN PlanEntries(last.changes) :
        /\ PlanEntries(last.changes)[i].k = "renamed"
        /\ Len(last.log) >= i - 1
        /\ PlanEntries(last.changes)[i].item.new_path \notin PathsOf(last.pre_files)
        /\ ~Exists(last.pre_wt, PlanEntries(last.changes)[i].item.new_path)
        /\ Exists(last.pre_wt, PlanEntries(last.changes)[i].item.path)
        /\ is_versioned_file(PlanEntries(last.changes)[i].item.path, geodiff) =>
               Exists(last.pre_meta, PlanEntries(last.changes)[i].item.path)}

RenamedApplied(a, b) ==
    /\ ~Exists(wt, a)
    /\ Exists(wt, b)
    /\ is_versioned_file(b, geodiff) => Exists(metaDir, b)
    /\ is_versioned_file(a, geodiff) => ~Exists(metaDir, a)

\* C21: Apply-Pull of a renamed entry (path a, new_path b) moves the
\* working-tree file from a to b, nothing remaining at a; the basefile of a
\* structured file is moved with it, so that basefile(b) exists and
\* basefile(a) does not, also when only one of a and b has a structured
\* extension.
C21_RenamedMoves ==
    last.op = "pull" =>
        \A i \in RenamedReached :
            /\ Len(last.log) >= i
            /\ RenamedApplied(PlanEntries(last.changes)[i].item.path,
                              PlanEntries(last.changes)[i].item.new_path)

\* the same for renames within one kind of file
C21_RenamedSameKind ==
    last.op = "pull" =>
        \A i \in RenamedReached :
            Structured(PlanEntries(last.changes)[i].item.path)
                = Structured(PlanEntries(last.changes)[i].item.new_path)
            => /\ Len(last.log) >= i
               /\ RenamedApplied(PlanEntries(last.changes)[i].item.path,
                                 PlanEntries(last.changes)[i].item.new_path)

\* a structured file and its basefile have been moved by a pull
C21_StructuredMoved ==
    /\ last.op = "pull"
    /\ geodiff
    /\ \E i \in RenamedReached :
          /\ Structured(PlanEntries(last.changes)[i].item.new_path)
          /\ Len(last.log) >= i
          /\ RenamedApplied(PlanEntries(last.changes)[i].item.path,
                            PlanEntries(last.changes)[i].item.new_path)

---------------------------------------------------------------------------
(* Apply-Push: what it changes.                                             *)

PushEntries == PlanEntries(last.changes)

\* the entries of the last push apply_push_changes does not skip
PushStructured ==
    {i \in DOMAIN PushEntries : is_versioned_file(EntryPath(PushEntries[i]), geodiff)}

\* applying the pushed diff of entry i to the basefile fails
PatchFails(i) ==
    \/ "push_apply" \in last.broken
    \/ ~Exists(last.pre_meta, PushEntries[i].item.path)
    \/ ~Applies(last.pre_meta[PushEntries[i].item.path],
                PushEntries[i].item.diff.changeset)

\* the mirror at p is as entry i leaves it, by the list of the claim
EffectAt(i, p) ==
    LET e == PushEntries[i] IN
    IF e.k = "renamed"
    THEN \/ /\ p = e.item.new_path
            /\ Exists(metaDir, p)
            /\ Exists(last.pre_meta, e.item.path)
            /\ metaDir[p] = last.pre_meta[e.item.path]
         \/ /\ p = e.item.path
            /\ p # e.item.new_path
            /\ ~Exists(metaDir, p)
    ELSE /\ p = e.item.path
         /\ IF e.k = "removed" THEN ~Exists(metaDir, p)
            ELSE IF e.k = "added"
            THEN /\ Exists(metaDir, p)
                 /\ Exists(wt, p)
                 /\ metaDir[p] = wt[p]
            ELSE IF "diff" \in DOMAIN e.item
            THEN /\ Exists(metaDir, p)
                 /\ Exists(last.pre_meta, p)
                 /\ metaDir[p] = Patched(last.pre_meta[p], e.item.diff.changeset)
            ELSE SameFile(metaDir, last.pre_meta, p)

\* the same with the basefile deleted when the diff could not be applied
EffectOrDeletedAt(i, p) ==
    IF /\ PushEntries[i].k = "updated"
       /\ "diff" \in DOMAIN PushEntries[i].item
       /\ PatchFails(i)
    THEN p = PushEntries[i].item.path /\ ~Exists(metaDir, p)
    ELSE EffectAt(i, p)

MirrorPaths == Basefiles(metaDir) \cup Basefiles(last.pre_meta)

\* no other entry of the plan names a path of entry i
AloneOnPath(i) ==
    \A j \in DOMAIN PushEntries \ {i} :
        EntryFiles(PushEntries[j]) \cap EntryFiles(PushEntries[i]) = {}

\* C22: Apply-Push never changes a working-tree file and changes the
\* mirror only as follows: renamed structured, basefile moved; removed
\* structured, basefile deleted; added structured, basefile a copy of the
\* working-tree file; updated structured with diff, the diff applied to the
\* basefile; anything else, nothing.  Every path of the mirror is unchanged
\* or as one entry of the plan leaves it, and after a completed run every
\* entry that shares its paths with no other entry has had its effect.
C22_PushEffects ==
    last.op = "push" =>
        /\ wt = last.pre_wt
        /\ \A p \in MirrorPaths :
              \/ SameFile(metaDir, last.pre_meta, p)
              \/ \E i \in PushStructured : EffectAt(i, p)
        /\ last.ok =>
              \A i \in PushStructured :
                  AloneOnPath(i) => EffectAt(i, EntryPath(PushEntries[i]))

\* C22 with the failure of the diff accounted for: as above, and an
\* updated structured entry whose diff cannot be applied to the basefile
\* has its basefile deleted.
C22_PushEffectsOrDeleted ==
    last.op = "push" =>
        /\ wt = last.pre_wt
        /\ \A p \in MirrorPaths :
              \/ SameFile(metaDir, last.pre_meta, p)
              \/ \E i \in PushStructured : EffectOrDeletedAt(i, p)
        /\ last.ok =>
              \A i \in PushStructured :
                  AloneOnPath(i) => EffectOrDeletedAt(i, EntryPath(PushEntries[i]))

\* a completed push has applied a diff to a basefile
C22_Witness ==
    /\ last.op = "push"
    /\ last.ok
    /\ \E i \in PushStructured :
          /\ PushEntries[i].k = "updated"
          /\ "diff" \in DOMAIN PushEntries[i].item
          /\ ~PatchFails(i)
          /\ metaDir[EntryPath(PushEntries[i])] # last.pre_meta[EntryPath(PushEntries[i])]

\* a completed push has deleted a basefile its diff could not be applied to
C22_DiffFailed ==
    /\ last.op = "push"
    /\ last.ok
    /\ \E i \in PushStructured :
          /\ PushEntries[i].k = "updated"
          /\ "diff" \in DOMAIN PushEntries[i].item
          /\ PatchFails(i)
          /\ ~Exists(metaDir, EntryPath(PushEntries[i]))

---------------------------------------------------------------------------
(* Apply-Push when the pushed diff cannot be applied to the basefile.       *)

FailedPatches ==
    {i \in PushStructured :
        /\ PushEntries[i].k = "updated"
        /\ "diff" \in DOMAIN PushEntries[i].item
        /\ PatchFails(i)}

\* the basefiles lost to a failed diff before the last sync started
LostBefore == {p \in last.lost : ~Exists(last.pre_meta, p)}

\* the failure is absorbed: a plan of updated entries only does not raise,
\* and the basefile of the failing entry is gone
C23_FailedPatchDeletes ==
    last.op = "push" =>
        /\ (\A i \in DOMAIN PushEntries : PushEntries[i].k = "updated") => last.ok
        /\ \A i \in FailedPatches :
              last.ok /\ AloneOnPath(i) =>
                 /\ ~Exists(metaDir, PushEntries[i].item.path)
                 /\ PushEntries[i].item.path \in last.lost

\* a completed pull after the failure brings the basefile back
PullRestores ==
    (last.op = "pull" /\ last.ok) =>
        \A p \in LostBefore :
            Exists(server.files, p) =>
                /\ Exists(metaDir, p)
                /\ metaDir[p] = server.files[p]

\* a later pull or push whose plan removes or renames a file that has lost
\* its basefile does not raise
SyncAfterLoss ==
    (/\ last.op # "none"
     /\ \E i \in DOMAIN PlanEntries(last.changes) :
           /\ PlanEntries(last.changes)[i].k \in {"removed", "renamed"}
           /\ PlanEntries(last.changes)[i].item.path \in LostBefore)
    => last.ok

\* C23: when applying the pushed diff to basefile(P) fails in Apply-Push,
\* basefile(P) is deleted and Apply-Push completes without raising; the
\* next pull fetches the basefile again, so that it exists and equals the
\* server version, and no later push or pull fails because the basefile is
\* missing.
C23_FailedPatchRecovers ==
    /\ C23_FailedPatchDeletes
    /\ PullRestores
    /\ SyncAfterLoss

\* a pull in which the server's update of P has brought the basefile back
C23_RestoredByUpdate ==
    /\ last.op = "pull"
    /\ last.ok
    /\ \E p \in LostBefore : Exists(metaDir, p) /\ metaDir[p] = server.files[p]

---------------------------------------------------------------------------
(* Orphans of the mirror.                                                   *)

\* the structured paths the plan of the last sync removes or renames away
\* from
Vacated ==
    {e.item.path : e \in
        {e \in {PlanEntries(last.changes)[i] : i \in DOMAIN PlanEntries(last.changes)} :
            /\ Structured(e.item.path)
            /\ \/ e.k = "removed"
               \/ e.k = "renamed" /\ e.item.new_path # e.item.path}}

\* the same without the renames to a path that is not structured
VacatedTo(structured) ==
    {e.item.path : e \in
        {e \in {PlanEntries(last.changes)[i] : i \in DOMAIN PlanEntries(last.changes)} :
            /\ Structured(e.item.path)
            /\ \/ e.k = "removed"
               \/ /\ e.k = "renamed"
                  /\ e.item.new_path # e.item.path
                  /\ Structured(e.item.new_path) = structured}}

\* C24: after any completed Apply-Pull or Apply-Push the mirror holds no
\* orphan: whenever a plan entry removes a structured file or renames it
\* away from path P, basefile(P) no longer exists afterwards; after a
\* completed Apply-Push every basefile has its working-tree file.
C24_NoOrphan ==
    (last.op # "none" /\ last.ok) =>
        /\ \A p \in Vacated : ~Exists(wt, p) => ~Exists(metaDir, p)
        /\ last.op = "push" => \A p \in Basefiles(metaDir) : Exists(wt, p)

\* the same for removals and for renames between structured paths
C24_NoOrphanSameKind ==
    (last.op # "none" /\ last.ok) =>
        \A p \in VacatedTo(TRUE) : ~Exists(wt, p) => ~Exists(metaDir, p)

\* a completed sync has taken a basefile away with its file
C24_BasefileGone ==
    /\ last.op # "none"
    /\ last.ok
    /\ \E p \in VacatedTo(TRUE) :
          /\ Exists(last.pre_meta, p)
          /\ ~Exists(wt, p)
          /\ ~Exists(metaDir, p)

---------------------------------------------------------------------------
(* A client without the diff library.                                       *)

Groups == {"renamed", "added", "removed", "updated"}

WithoutChunks(f) == [k \in DOMAIN f \ {"chunks"} |-> f[k]]

\* the plan is what the change detector returned, but for the chunks
AsDetected(changes, detected) ==
    \A g \in Groups :
        /\ Len(changes[g]) = Len(detected[g])
        /\ \A i \in DOMAIN changes[g] : WithoutChunks(changes[g][i]) = detected[g][i]

\* C25: when the diff engine is unavailable no operation treats a file as
\* structured: get_pull_changes returns the change detector's result
\* unchanged, get_push_changes attaches no diff and drops no entry,
\* Apply-Pull performs no rebase and writes no basefile, Apply-Push changes
\* nothing.
C25_NothingStructured ==
    ~geodiff =>
        /\ last.op = "pull" =>
              /\ last.changes = compare_file_sets(last.pre_files, ServerFiles(server))
              /\ \A i \in DOMAIN last.log : last.log[i].branch = "plain"
              /\ metaDir = last.pre_meta
        /\ last.op = "push" =>
              /\ AsDetected(last.changes,
                            compare_file_sets(last.pre_files, inspect_files(last.pre_wt)))
              /\ metaDir = last.pre_meta
              /\ wt = last.pre_wt

\* without the library, a pull has replaced a database the user had
\* modified by the server's, with no basefile written
C25_Witness ==
    /\ ~geodiff
    /\ last.op = "pull"
    /\ last.ok
    /\ \E i \in DOMAIN last.log :
          /\ last.log[i].kind = "updated"
          /\ Structured(last.log[i].path)
          /\ last.log[i].path \in last.modified
          /\ ~Exists(metaDir, last.log[i].path)

\* without the library, a push has uploaded a modified database in full
C25_PushInFull ==
    /\ ~geodiff
    /\ last.op = "push"
    /\ \E i \in DOMAIN last.changes.updated :
          /\ Structured(last.changes.updated[i].path)
          /\ "diff" \notin DOMAIN last.changes.updated[i]

---------------------------------------------------------------------------
(* Local work across a pull.                                                *)

\* the paths whose working-tree file differed from the metadata when the
\* last pull started: added, updated, or the target of a rename
LocallyChanged ==
    {p \in {q \in DOMAIN last.pre_wt : ~ignore_file(q)} :
        \/ p \notin PathsOf(last.pre_files)
        \/ origin_map(last.pre_files, p).checksum # Checksum(last.pre_wt[p])}

\* the pull has deleted p or left other content in it
Replaced(p) ==
    \/ ~Exists(wt, p)
    \/ DbContent(wt, p) # DbContent(last.pre_wt, p)

\* a conflict copy of the returned list holds what p held
KeptInCopy(p) ==
    \E i \in DOMAIN last.conflicts :
        /\ last.conflicts[i] # None
        /\ Exists(wt, last.conflicts[i])
        /\ ~Exists(last.pre_wt, last.conflicts[i])
        /\ wt[last.conflicts[i]] = DbContent(last.pre_wt, p)

\* a successful rebase has merged the local changes of p into the file
KeptByRebase(p) ==
    \E i \in RebaseRecords("merged") :
        /\ last.log[i].path = p
        /\ Exists(wt, p)
        /\ LocalChange(last.log[i]).ins \subseteq DbContent(wt, p)
        /\ LocalChange(last.log[i]).del \cap DbContent(wt, p) = {}

\* a renamed entry has moved the file of p, content and all
MovedByPlan(p) ==
    \E i \in DOMAIN last.changes.renamed :
        /\ last.changes.renamed[i].path = p
        /\ Exists(wt, last.changes.renamed[i].new_path)
        /\ DbContent(wt, last.changes.renamed[i].new_path) = DbContent(last.pre_wt, p)

\* what p held is what a file of the server holds
SameAsServer(p) ==
    \E q \in DOMAIN server.files : server.files[q] = DbContent(last.pre_wt, p)

Survives(p) ==
    Replaced(p) =>
        KeptByRebase(p) \/ KeptInCopy(p) \/ MovedByPlan(p) \/ SameAsServer(p)

\* C26: Apply-Pull never silently discards local work: for every path
\* whose working-tree content differs from the metadata and whose file the
\* pull overwrites or deletes with different content, the local content
\* survives, merged into the file by a successful rebase or in a conflict
\* copy whose path is in the returned list.  Content that the plan has
\* moved with its file, or that a file of the server holds, is not counted
\* as discarded.
C26_LocalWorkSurvives ==
    last.op = "pull" => \A p \in LocallyChanged : Survives(p)

\* the same for the files that are not databases, under a plan without
\* renames
C26_PlainWorkSurvives ==
    (last.op = "pull" /\ last.changes.renamed = <<>>) =>
        \A p \in LocallyChanged : ~Structured(p) => Survives(p)

\* a pull has replaced a locally changed file and kept its content in a
\* conflict copy
C26_WorkKept ==
    /\ last.op = "pull"
    /\ \E p \in LocallyChanged :
          Replaced(p) /\ KeptInCopy(p) /\ ~SameAsServer(p)

---------------------------------------------------------------------------
(* Apply-Pull: what it leaves alone.                                        *)

\* the paths and new paths of the plan of the last pull
Named ==
    UNION {EntryFiles(PlanEntries(last.changes)[i]) :
               i \in DOMAIN PlanEntries(last.changes)}

IsSidecar(p, q) == p = WithTail(q, "-wal") \/ p = WithTail(q, "-shm")

\* p is a conflict copy the pull has made
NewCopy(p) == ~Exists(last.pre_wt, p) /\ Exists(wt, p) /\ InConflicts(p)

\* p is a sidecar, now removed, of an entry that ended in a conflict
ConflictSidecar(p) ==
    /\ ~Exists(wt, p)
    /\ \E i \in RebaseRecords("conflict") : IsSidecar(p, last.log[i].path)

\* p is a sidecar of a database the rebase has written to
RebasedSidecar(p) ==
    \E i \in RebaseRecords("merged") : IsSidecar(p, last.log[i].path)

\* the working-tree files and the basefiles the plan does not name
UnnamedFiles == (DOMAIN wt \cup DOMAIN last.pre_wt) \ Named

UnnamedBasefiles == (Basefiles(metaDir) \cup Basefiles(last.pre_meta)) \ Named

\* C27: Apply-Pull changes only files named by the plan: every
\* working-tree file and every basefile whose path is neither the path nor
\* the new_path of a plan entry is unchanged by the run, apart from newly
\* created conflict copies and the removed -wal/-shm sidecars of a
\* conflicted entry.
C27_OnlyPlanFiles ==
    last.op = "pull" =>
        /\ \A p \in UnnamedFiles :
              SameFile(wt, last.pre_wt, p) \/ NewCopy(p) \/ ConflictSidecar(p)
        /\ \A p \in UnnamedBasefiles :
              SameFile(metaDir, last.pre_meta, p)

\* C27 with the database of a rebased entry taken as a whole: as above,
\* and the sidecars of an entry whose rebase succeeded may be rewritten.
C27_OnlyPlanDatabases ==
    last.op = "pull" =>
        /\ \A p \in UnnamedFiles :
              \/ SameFile(wt, last.pre_wt, p)
              \/ NewCopy(p)
              \/ ConflictSidecar(p)
              \/ RebasedSidecar(p)
        /\ \A p \in UnnamedBasefiles :
              SameFile(metaDir, last.pre_meta, p)

\* a pull has rebased one database and left alone another database, its
\* basefile, and a file the user had changed
C27_Witness ==
    /\ last.op = "pull"
    /\ RebaseRecords("merged") # {}
    /\ \E p \in Basefiles(metaDir) \ Named : SameFile(metaDir, last.pre_meta, p)
    /\ \E p \in DOMAIN wt \ Named : Exists(last.pre_wt, p)

\* a successful rebase has rewritten the -wal of its database
C27_SidecarRewritten ==
    /\ last.op = "pull"
    /\ \E p \in UnnamedFiles :
          RebasedSidecar(p) /\ ~SameFile(wt, last.pre_wt, p)

====
